---- MODULE Spec2Model ----
(***************************************************************************)
(* A model of the DCS Lua composer (composer.py, dependency_manager.py):   *)
(* the directory-affine topological sort, the validator and rewriter of    *)
(* sanitize_content, and the build_project pipeline.                       *)
(*                                                                         *)
(* Strings are sequences of one-character strings, compared as Python      *)
(* compares str values (code point by code point); a path relative to the  *)
(* source root is a sequence of segments (the file segment without its     *)
(* ".lua" suffix).                                                         *)
(***************************************************************************)
EXTENDS Integers, Sequences, FiniteSets, TLC

VARIABLES
    pc,                         \* position of the running function
    dependencies_graph,         \* topological_sort argument: module -> set of required names
    all_modules_to_sort,        \* topological_sort argument: the core-module set
    module_to_path_map,         \* topological_sort argument: module -> path
    in_degree,                  \* topological_sort local
    adj,                        \* topological_sort local: dependency -> dependents
    processing_queue,           \* topological_sort local: the ready list
    sorted_order,               \* topological_sort local: the emitted order
    current_directory_context,  \* topological_sort local
    sort_outcome,               \* "none" | "returned" | "raised", with the modules named
    text,                       \* the text handed to the rewriter
    rewritten,                  \* the text after each rewriting pass, in the order of the passes
    content,                    \* sanitize_content argument: the text of the file
    is_lua_module,              \* sanitize_content argument
    dcs_strict_sanitize,        \* sanitize_content argument
    sanitize_outcome,           \* what sanitize_content returned or raised
    header_file_rel,            \* build_project argument: a relative path, or empty
    namespace_file_rel,         \* build_project argument
    entrypoint_file_rel,        \* build_project argument
    footer_file_rel,            \* build_project argument: a relative path, or empty
    dependencies_config,        \* build_project argument: the declared external dependencies
    scope,                      \* build_project argument: "global" | "local"
    files,                      \* the source tree: path -> what the build has seen of the file
    loop_index,                 \* iterations done of the loop build_project is in
    final_lua_code,             \* build_project local: the pieces appended so far
    output_file,                \* the output file on disk
    build_outcome,              \* "running" | "returned" | "raised", with the error
    log,                        \* file system and network operations and printed diagnostics
    fetched_contents,           \* what fetch_dependency returned, for each dependency fetched
    cache_dir,                  \* the cache directory: cache file -> its data, or no file
    calls,                      \* manager -> its call of _download_with_cache
    first_content,              \* cache file -> the content the first successful call returned
    composerrc,                 \* validate_config argument: the keys and values of .composerrc
    validated_config,           \* what validate_config returned
    rc_warnings,                \* what validate_config printed
    all_lua_file_paths,         \* build_project local: the files in the order of the walk
    role_paths,                 \* build_project local: fixed_order_paths
    module_to_path,             \* build_project local: module name -> path
    path_to_module,             \* build_project local: path -> module name
    core_module_names_to_sort,  \* build_project local: the set handed to the sorter
    scan_text,                  \* _find_balanced_parentheses argument: text
    scan_start,                 \* _find_balanced_parentheses argument: start_pos
    scan_end                    \* what _find_balanced_parentheses returned

sortVars == <<dependencies_graph, all_modules_to_sort, module_to_path_map, in_degree, adj,
              processing_queue, sorted_order, current_directory_context, sort_outcome>>

rewriteVars == <<text, rewritten>>

sanitizeVars == <<content, is_lua_module, dcs_strict_sanitize, sanitize_outcome>>

buildArgs == <<header_file_rel, namespace_file_rel, entrypoint_file_rel, footer_file_rel,
               dependencies_config, scope>>

buildVars == <<buildArgs, files, loop_index, final_lua_code, output_file, build_outcome, log,
               fetched_contents>>

cacheVars == <<cache_dir, calls, first_content>>

configVars == <<composerrc, validated_config, rc_warnings>>

discoverVars == <<all_lua_file_paths, role_paths, module_to_path, path_to_module,
                  core_module_names_to_sort>>

scanVars == <<scan_text, scan_start, scan_end>>

unitVars == <<configVars, discoverVars, scanVars>>

vars == <<pc, sortVars, rewriteVars, sanitizeVars, buildVars, cacheVars, unitVars>>

----------------------------------------------------------------------------
(* Python values *)

\* None, where a directory is expected (no directory is named "None")
NoneValue == << <<"None">> >>

\* ord() of the characters the model uses
Ord(c) ==
    CASE c = "." -> 46
      [] c = "a" -> 97
      [] c = "b" -> 98
      [] c = "m" -> 109
      [] c = "n" -> 110
      [] c = "s" -> 115
      [] c = "z" -> 122

\* str.__lt__: lexicographic by code point, a proper prefix is smaller
RECURSIVE StrLess(_, _)
StrLess(s, t) ==
    IF t = <<>> THEN FALSE
    ELSE IF s = <<>> THEN TRUE
    ELSE IF Ord(Head(s)) # Ord(Head(t)) THEN Ord(Head(s)) < Ord(Head(t))
    ELSE StrLess(Tail(s), Tail(t))

\* the smallest string of a non-empty set
MinStr(S) == CHOOSE m \in S : \A o \in S : o = m \/ StrLess(m, o)

\* sorted(S) of a set of strings
RECURSIVE SortedSet(_)
SortedSet(S) ==
    IF S = {} THEN <<>>
    ELSE LET m == MinStr(S) IN <<m>> \o SortedSet(S \ {m})

\* list.sort() of a list of strings: insertion of each element in turn
RECURSIVE InsertSorted(_, _)
InsertSorted(x, l) ==
    IF l = <<>> THEN <<x>>
    ELSE IF StrLess(x, Head(l)) THEN <<x>> \o l
    ELSE <<Head(l)>> \o InsertSorted(x, Tail(l))

\* a list left in the order it has
SortList_Unsorted(l) == l

RECURSIVE SortList(_)
SortList(l) == IF l = <<>> THEN <<>> ELSE InsertSorted(Head(l), SortList(Tail(l)))

\* list.remove(x): drops the first occurrence
RECURSIVE ListRemove(_, _)
ListRemove(l, x) ==
    IF l = <<>> THEN <<>>
    ELSE IF Head(l) = x THEN Tail(l)
    ELSE <<Head(l)>> \o ListRemove(Tail(l), x)

Range(l) == {l[i] : i \in 1..Len(l)}

\* the orders in which the elements of a set or the keys of a dictionary can
\* be iterated
IterationOrders(S) ==
    {l \in [1..Cardinality(S) -> S] : \A i, j \in DOMAIN l : i # j => l[i] # l[j]}

IndexOf(l, x) == CHOOSE i \in 1..Len(l) : l[i] = x

----------------------------------------------------------------------------
(* Paths and module names *)

\* str(relative_path.with_suffix("")).replace(os.sep, "."): the segments joined by "."
RECURSIVE get_module_name_from_path(_)
get_module_name_from_path(p) ==
    IF Len(p) = 1 THEN p[1]
    ELSE p[1] \o <<".">> \o get_module_name_from_path(Tail(p))

\* Path(...).parent
Parent(p) == SubSeq(p, 1, Len(p) - 1)

----------------------------------------------------------------------------
(* The files of the modelled source tree *)

CoreNames == { <<"a", ".", "m">>, <<"a", ".", "z">>, <<"b", ".", "m">>, <<"b", ".", "n">> }

\* the namespace role file ns.lua: a discovered module that is not a core module
NamespaceName == <<"n", "s">>

\* names a dependency dictionary can hold as keys and as required names
GraphNames == CoreNames \cup {NamespaceName}

\* a/m.lua, a/z.lua, b/m.lua, b/n.lua: each module in the directory its name spells
NestedPathMap == [m \in GraphNames |-> IF Len(m) = 3 THEN << <<m[1]>>, <<m[3]>> >> ELSE <<m>>]

\* a.m.lua, a.z.lua, b.m.lua, b.n.lua: every file directly in the source root
FlatPathMap == [m \in GraphNames |-> <<m>>]

\* the number of (module, required name) entries of a dependency dictionary
MaxEdges == 3

GraphSize(g) ==
    LET RECURSIVE Sum(_)
        Sum(K) == IF K = {} THEN 0
                  ELSE LET k == CHOOSE k \in K : TRUE IN Cardinality(g[k]) + Sum(K \ {k})
    IN Sum(DOMAIN g)

----------------------------------------------------------------------------
(* topological_sort *)

\* the in-degree counting every required name
InDegreeOf_AllNames(graph, mods) ==
    [m \in mods |-> IF m \in DOMAIN graph THEN Cardinality(graph[m]) ELSE 0]

\* lines 195-209: in_degree of every module of the set, counting only the
\* entries whose module and required name both lie in the set
InDegreeOf(graph, mods) ==
    [m \in mods |-> IF m \in DOMAIN graph THEN Cardinality(graph[m] \cap mods) ELSE 0]

\* lines 203-208: adj[dep] holds the modules that require dep
AdjOf(graph, mods) ==
    [d \in mods |-> {m \in (DOMAIN graph) \cap mods : d \in graph[m]}]

\* lines 211-216: the modules of in-degree zero, sorted
InitialQueue(deg) == SortedSet({m \in DOMAIN deg : deg[m] = 0})

\* lines 222-227: the ready modules in the directory of the current context
ContextCandidates(queue, ctx, pathmap) ==
    IF ctx = NoneValue THEN <<>>
    ELSE SortedSet({m \in Range(queue) : Parent(pathmap[m]) = ctx})

\* the pick with the directory context ignored
PickModule_NoAffinity(queue, ctx, pathmap) == SortList(queue)[1]

\* lines 220-233: the module picked from a non-empty queue
PickModule(queue, ctx, pathmap) ==
    LET context_candidates == ContextCandidates(queue, ctx, pathmap)
    IN IF context_candidates # <<>> THEN context_candidates[1]
       ELSE SortList(queue)[1]

\* the queue with the picked module left in it
QueueAfterPick_Kept(queue, ctx, pathmap) == SortList(queue)

\* lines 230-235: the queue is sorted when the pick fell back to the whole queue;
\* the picked module is removed
QueueAfterPick(queue, ctx, pathmap) ==
    LET module_to_process == PickModule(queue, ctx, pathmap)
    IN IF ContextCandidates(queue, ctx, pathmap) # <<>>
       THEN ListRemove(queue, module_to_process)
       ELSE ListRemove(SortList(queue), module_to_process)

\* a neighbour released while one of its dependencies is still to come
RECURSIVE ReleaseNeighbors_Early(_, _, _)
ReleaseNeighbors_Early(neighbors, deg, queue) ==
    IF neighbors = <<>> THEN [in_degree |-> deg, processing_queue |-> queue]
    ELSE LET n == Head(neighbors)
             d == [deg EXCEPT ![n] = @ - 1]
         IN ReleaseNeighbors_Early(Tail(neighbors), d,
                                   IF d[n] <= 1 THEN SortList(Append(queue, n)) ELSE queue)

\* lines 243-250: each neighbour's in-degree drops by one; at zero it joins the queue
RECURSIVE ReleaseNeighbors(_, _, _)
ReleaseNeighbors(neighbors, deg, queue) ==
    IF neighbors = <<>> THEN [in_degree |-> deg, processing_queue |-> queue]
    ELSE LET n == Head(neighbors)
             d == [deg EXCEPT ![n] = @ - 1]
         IN ReleaseNeighbors(Tail(neighbors), d,
                             IF d[n] = 0 THEN SortList(Append(queue, n)) ELSE queue)

\* the modules named with the test on the in-degree off by one
ProblematicModules_OffByOne(deg) == {m \in DOMAIN deg : deg[m] > 1}

\* line 254
ProblematicModules(deg) == {m \in DOMAIN deg : deg[m] > 0}

\* line 253
MissingFromSorted(mods, order) == mods \ Range(order)

NoOutcome == [status |-> "none", order |-> <<>>, problematic_modules |-> {},
              missing_from_sorted |-> {}]

\* lines 219-250: one iteration of the loop, on the values of the locals
SortLoopStep(deg, adjacency, queue, order, ctx, pathmap) ==
    LET module_to_process == PickModule(queue, ctx, pathmap)
        released == ReleaseNeighbors(SortedSet(adjacency[module_to_process]), deg,
                                     QueueAfterPick(queue, ctx, pathmap))
    IN [in_degree |-> released.in_degree,
        processing_queue |-> released.processing_queue,
        sorted_order |-> Append(order, module_to_process),
        current_directory_context |-> Parent(pathmap[module_to_process])]

\* lines 252-261: the order returned, or the exception raised
SortResult(deg, order, mods) ==
    IF Len(order) # Cardinality(mods)
    THEN [status |-> "raised", order |-> <<>>,
          problematic_modules |-> ProblematicModules(deg),
          missing_from_sorted |-> MissingFromSorted(mods, order)]
    ELSE [status |-> "returned", order |-> order,
          problematic_modules |-> {}, missing_from_sorted |-> {}]

\* lines 219-261: the loop run to its end
RECURSIVE SortLoop(_, _, _, _, _, _, _)
SortLoop(deg, adjacency, queue, order, ctx, pathmap, mods) ==
    IF queue = <<>> THEN SortResult(deg, order, mods)
    ELSE LET next == SortLoopStep(deg, adjacency, queue, order, ctx, pathmap)
         IN SortLoop(next.in_degree, adjacency, next.processing_queue, next.sorted_order,
                     next.current_directory_context, pathmap, mods)

\* lines 193-261: the whole call
topological_sort(graph, mods, pathmap) ==
    SortLoop(InDegreeOf(graph, mods), AdjOf(graph, mods),
             InitialQueue(InDegreeOf(graph, mods)), <<>>, NoneValue, pathmap, mods)

\* a caller fills the dependency dictionary
GraphEntry(m, d) ==
    /\ pc = "input"
    /\ GraphSize(dependencies_graph) < MaxEdges
    /\ d \notin dependencies_graph[m]
    /\ dependencies_graph' = [dependencies_graph EXCEPT ![m] = @ \cup {d}]
    /\ UNCHANGED <<pc, all_modules_to_sort, module_to_path_map, in_degree, adj,
                   processing_queue, sorted_order, current_directory_context, sort_outcome,
                   rewriteVars, sanitizeVars, buildVars, cacheVars, unitVars>>

\* lines 195-216: the call, up to the loop
SortBegin ==
    /\ pc = "input"
    /\ pc' = "loop"
    /\ in_degree' = InDegreeOf(dependencies_graph, all_modules_to_sort)
    /\ adj' = AdjOf(dependencies_graph, all_modules_to_sort)
    /\ processing_queue' = InitialQueue(in_degree')
    /\ sorted_order' = <<>>
    /\ current_directory_context' = NoneValue
    /\ UNCHANGED <<dependencies_graph, all_modules_to_sort, module_to_path_map, sort_outcome,
                   rewriteVars, sanitizeVars, buildVars, cacheVars, unitVars>>

\* lines 219-250: one iteration of the loop
SortStep ==
    /\ pc = "loop"
    /\ processing_queue # <<>>
    /\ LET next == SortLoopStep(in_degree, adj, processing_queue, sorted_order,
                                current_directory_context, module_to_path_map)
       IN /\ sorted_order' = next.sorted_order
          /\ current_directory_context' = next.current_directory_context
          /\ in_degree' = next.in_degree
          /\ processing_queue' = next.processing_queue
    /\ UNCHANGED <<pc, dependencies_graph, all_modules_to_sort, module_to_path_map, adj,
                   sort_outcome, rewriteVars, sanitizeVars, buildVars, cacheVars, unitVars>>

\* lines 252-261: the loop has ended
SortEnd ==
    /\ pc = "loop"
    /\ processing_queue = <<>>
    /\ pc' = "done"
    /\ sort_outcome' = SortResult(in_degree, sorted_order, all_modules_to_sort)
    /\ UNCHANGED <<dependencies_graph, all_modules_to_sort, module_to_path_map, in_degree, adj,
                   processing_queue, sorted_order, current_directory_context, rewriteVars,
                   sanitizeVars, buildVars, cacheVars, unitVars>>

\* no call of topological_sort is in progress
SortIdle ==
    /\ dependencies_graph = [m \in GraphNames |-> {}]
    /\ all_modules_to_sort = CoreNames
    /\ in_degree = [m \in CoreNames |-> 0]
    /\ adj = [m \in CoreNames |-> {}]
    /\ processing_queue = <<>>
    /\ sorted_order = <<>>
    /\ current_directory_context = NoneValue
    /\ sort_outcome = NoOutcome

\* no text is being rewritten
RewriteIdle ==
    /\ text = <<>>
    /\ rewritten = <<>>

\* no file is being sanitized
NotSanitized == [status |-> "none", content |-> <<>>, warnings |-> <<>>,
                 error |-> [kind |-> "none"]]

SanitizeIdle ==
    /\ content = <<>>
    /\ is_lua_module = TRUE
    /\ dcs_strict_sanitize = TRUE
    /\ sanitize_outcome = NotSanitized

\* what build_outcome holds while no build has ended
NoBuildOutcome == [status |-> "running", error |-> [kind |-> "none"]]

\* the output file before a build has written it
NoOutputFile == [exists |-> FALSE, data |-> <<>>]

\* no manager downloads
CacheIdle ==
    /\ cache_dir = <<>>
    /\ calls = <<>>
    /\ first_content = <<>>

\* no configuration is validated, no tree is walked, no text is scanned
UnitIdle ==
    /\ composerrc = <<>>
    /\ validated_config = <<>>
    /\ rc_warnings = <<>>
    /\ all_lua_file_paths = <<>>
    /\ role_paths = {}
    /\ module_to_path = <<>>
    /\ path_to_module = <<>>
    /\ core_module_names_to_sort = {}
    /\ scan_text = <<>>
    /\ scan_start = 0
    /\ scan_end = 0

\* no build is in progress
BuildIdle ==
    /\ header_file_rel = <<>>
    /\ namespace_file_rel = <<>>
    /\ entrypoint_file_rel = <<>>
    /\ footer_file_rel = <<>>
    /\ dependencies_config = <<>>
    /\ scope = "global"
    /\ files = <<>>
    /\ loop_index = 0
    /\ final_lua_code = <<>>
    /\ output_file = NoOutputFile
    /\ build_outcome = NoBuildOutcome
    /\ log = <<>>
    /\ fetched_contents = <<>>

InitSort ==
    /\ CacheIdle
    /\ UnitIdle
    /\ pc = "input"
    /\ SortIdle
    /\ module_to_path_map \in {NestedPathMap, FlatPathMap}
    /\ RewriteIdle
    /\ SanitizeIdle
    /\ BuildIdle

NextSort ==
    \/ \E m \in GraphNames, d \in GraphNames : GraphEntry(m, d)
    \/ SortBegin
    \/ SortStep
    \/ SortEnd

SpecSort == InitSort /\ [][NextSort]_vars

----------------------------------------------------------------------------
(* Properties of topological_sort *)

\* the entries of the dictionary that join two modules of the set
CoreDeps(m) == dependencies_graph[m] \cap all_modules_to_sort

\* every non-empty set of modules has a member that requires none of the set
Acyclic == \A S \in (SUBSET all_modules_to_sort) \ {{}} : \E m \in S : CoreDeps(m) \cap S = {}

\* the modules on a cycle or behind one: the largest set each of whose members
\* requires a member of the set
Stuck == UNION {S \in SUBSET all_modules_to_sort : \A m \in S : CoreDeps(m) \cap S # {}}

\* C1: for every acyclic graph over the core-module set, topological_sort returns
\* a list holding each module of the set exactly once, in which every dependency
\* stands before each module that requires it.
C1_DependenciesFirst ==
    (pc = "done" /\ Acyclic) =>
        /\ sort_outcome.status = "returned"
        /\ Len(sort_outcome.order) = Cardinality(all_modules_to_sort)
        /\ Range(sort_outcome.order) = all_modules_to_sort
        /\ \A m \in all_modules_to_sort : \A d \in CoreDeps(m) :
               IndexOf(sort_outcome.order, d) < IndexOf(sort_outcome.order, m)

\* a module requiring two others, one of them sorting after it by name, was ordered
C1_Witness ==
    /\ pc = "done"
    /\ sort_outcome.status = "returned"
    /\ \E m \in all_modules_to_sort :
           /\ Cardinality(CoreDeps(m)) = 2
           /\ \E d \in CoreDeps(m) : StrLess(m, d)

\* the modules of in-degree zero that have not been emitted
Ready == {m \in all_modules_to_sort : in_degree[m] = 0 /\ m \notin Range(sorted_order)}

DirOf(m) == Parent(module_to_path_map[m])

\* C2: at every pick, if a ready module lies in the directory of the module
\* emitted last, the pick is the smallest ready module of that directory, even
\* when a smaller ready module lies elsewhere; otherwise (and at the first pick)
\* it is the smallest ready module overall.
C2_DirectoryAffinity ==
    [][ (pc = "loop" /\ sorted_order' # sorted_order) =>
          LET picked == sorted_order'[Len(sorted_order')]
              here   == IF sorted_order = <<>> THEN {}
                        ELSE {m \in Ready : DirOf(m) = DirOf(sorted_order[Len(sorted_order)])}
          IN /\ sorted_order' = Append(sorted_order, picked)
             /\ picked = IF here # {} THEN MinStr(here) ELSE MinStr(Ready) ]_vars

\* the module picked last shares the directory of the one before it, while a
\* module of a smaller name in another directory was ready and is still queued
C2_Witness ==
    /\ pc = "loop"
    /\ Len(sorted_order) >= 2
    /\ LET k == Len(sorted_order)
           picked == sorted_order[k]
       IN /\ DirOf(picked) = DirOf(sorted_order[k - 1])
          /\ \E m \in Range(processing_queue) :
                 /\ StrLess(m, picked)
                 /\ DirOf(m) # DirOf(picked)
                 /\ CoreDeps(m) \subseteq Range(SubSeq(sorted_order, 1, k - 1))

\* C3: for every graph with a cycle, topological_sort raises instead of
\* returning an order, and the modules it names are exactly those whose
\* in-degree never reached zero: the modules on a cycle or behind one, which
\* are the modules never emitted.
C3_CycleRaises ==
    (pc = "done" /\ ~Acyclic) =>
        /\ sort_outcome.status = "raised"
        /\ sort_outcome.order = <<>>
        /\ sort_outcome.problematic_modules = Stuck
        /\ sort_outcome.problematic_modules = all_modules_to_sort \ Range(sorted_order)

\* a cycle of three modules A -> B -> C -> A was given and exactly the three are named
C3_Witness ==
    /\ pc = "done"
    /\ sort_outcome.status = "raised"
    /\ \E A, B, C \in all_modules_to_sort :
           /\ A # B /\ B # C /\ A # C
           /\ CoreDeps(A) = {C} /\ CoreDeps(B) = {A} /\ CoreDeps(C) = {B}
           /\ sort_outcome.problematic_modules = {A, B, C}

----------------------------------------------------------------------------
(* The rewriter: _find_balanced_parentheses and _safe_regex_replace.       *)
(* A text is a sequence of lexemes: the call heads the patterns look for   *)
(* (each one lexeme) and single characters. Positions are Python's, from 0.*)

\* text[i]
At(t, i) == t[i + 1]

\* text[a:b]
Slice(t, a, b) == IF a >= b THEN <<>> ELSE SubSeq(t, a + 1, IF b > Len(t) THEN Len(t) ELSE b)

\* text.find(c, start)
Find(t, c, start) ==
    IF \E i \in start..(Len(t) - 1) : At(t, i) = c
    THEN CHOOSE i \in start..(Len(t) - 1) :
             At(t, i) = c /\ \A j \in start..(i - 1) : At(t, j) # c
    ELSE -1

\* the scan with a quote character closing any string
RECURSIVE ScanParentheses_AnyQuoteCloses(_, _, _, _, _, _)
ScanParentheses_AnyQuoteCloses(t, pos, paren_count, in_string, escape_next, string_char) ==
    IF ~(pos < Len(t) /\ paren_count > 0)
    THEN IF paren_count = 0 THEN pos - 1 ELSE -1
    ELSE LET char == At(t, pos) IN
         IF escape_next
         THEN ScanParentheses_AnyQuoteCloses(t, pos + 1, paren_count, in_string, FALSE, string_char)
         ELSE IF char = "\\"
         THEN ScanParentheses_AnyQuoteCloses(t, pos + 1, paren_count, in_string, TRUE, string_char)
         ELSE IF char \in {"\"", "'"}
         THEN ScanParentheses_AnyQuoteCloses(t, pos + 1, paren_count, FALSE, FALSE, "")
         ELSE IF char = "("
         THEN ScanParentheses_AnyQuoteCloses(t, pos + 1, paren_count + 1, in_string, FALSE, string_char)
         ELSE IF char = ")"
         THEN ScanParentheses_AnyQuoteCloses(t, pos + 1, paren_count - 1, in_string, FALSE, string_char)
         ELSE ScanParentheses_AnyQuoteCloses(t, pos + 1, paren_count, in_string, FALSE, string_char)

\* lines 62-83: the loop of _find_balanced_parentheses
RECURSIVE ScanParentheses(_, _, _, _, _, _)
ScanParentheses(t, pos, paren_count, in_string, escape_next, string_char) ==
    IF ~(pos < Len(t) /\ paren_count > 0)
    THEN IF paren_count = 0 THEN pos - 1 ELSE -1
    ELSE LET char == At(t, pos) IN
         IF escape_next
         THEN ScanParentheses(t, pos + 1, paren_count, in_string, FALSE, string_char)
         ELSE IF char = "\\"
         THEN ScanParentheses(t, pos + 1, paren_count, in_string, TRUE, string_char)
         ELSE IF ~in_string
         THEN IF char \in {"\"", "'"}
              THEN ScanParentheses(t, pos + 1, paren_count, TRUE, FALSE, char)
              ELSE IF char = "("
              THEN ScanParentheses(t, pos + 1, paren_count + 1, FALSE, FALSE, string_char)
              ELSE IF char = ")"
              THEN ScanParentheses(t, pos + 1, paren_count - 1, FALSE, FALSE, string_char)
              ELSE ScanParentheses(t, pos + 1, paren_count, FALSE, FALSE, string_char)
         ELSE IF char = string_char
         THEN ScanParentheses(t, pos + 1, paren_count, FALSE, FALSE, "")
         ELSE ScanParentheses(t, pos + 1, paren_count, TRUE, FALSE, string_char)

\* lines 51-83
find_balanced_parentheses(t, start_pos) ==
    IF start_pos >= Len(t) \/ At(t, start_pos) # "(" THEN -1
    ELSE ScanParentheses(t, start_pos + 1, 1, FALSE, FALSE, "")

\* the call heads of lines 132-135, and what lines 356-362 put in their place
Replacement ==
    [h \in {"print", "log.info", "log.warning", "log.error"} |->
        IF h = "log.warning" THEN "env.warning"
        ELSE IF h = "log.error" THEN "env.error"
        ELSE "env.info"]

\* the lexemes log.<identifier>
LogHeads == {"log.info", "log.warning", "log.error", "log.debug"}

\* the lexemes that are one identifier, or one keyword
IdentLexemes == {"x", "print", "os", "io", "lfs", "local", "goto", "require", "loadlib",
                 "package"}

\* the lexemes that end in a word character (\w): no \b between one and a lexeme
\* that starts with a word character
WordLexemes == IdentLexemes \cup LogHeads \cup {"env.info", "env.warning", "env.error"}

IsSpace(c) == c \in {" ", "\n"}

\* the position of the first lexeme at or after i that is no white space
RECURSIVE SkipSpace(_, _)
SkipSpace(t, i) == IF i < Len(t) /\ IsSpace(At(t, i)) THEN SkipSpace(t, i + 1) ELSE i

\* the position of the first lexeme at or after i that does not go on an identifier
RECURSIVE SkipIdent(_, _)
SkipIdent(t, i) == IF i < Len(t) /\ At(t, i) \in IdentLexemes THEN SkipIdent(t, i + 1) ELSE i

\* line 136: the pattern of any log.<identifier>
LogOther == "log.*"

\* where the match of a pattern starting at i ends: after the head (for
\* LogOther, after the whole identifier) and the white space that follows
MatchEnd(head, t, i) == SkipSpace(t, IF head = LogOther THEN SkipIdent(t, i + 1) ELSE i + 1)

\* lines 132-136, \b<head>\s*(?=\(): the head starts a word and white space,
\* then "(", follows it
MatchesAt(head, t, i) ==
    /\ IF head = LogOther THEN At(t, i) \in LogHeads ELSE At(t, i) = head
    /\ i = 0 \/ At(t, i - 1) \notin WordLexemes
    /\ MatchEnd(head, t, i) < Len(t)
    /\ At(t, MatchEnd(head, t, i)) = "("

\* pattern.finditer(text): the matches from left to right, as [start, end)
RECURSIVE FindIter(_, _, _)
FindIter(head, t, i) ==
    IF i >= Len(t) THEN <<>>
    ELSE IF MatchesAt(head, t, i)
    THEN <<[start |-> i, end |-> MatchEnd(head, t, i)]>> \o FindIter(head, t, MatchEnd(head, t, i))
    ELSE FindIter(head, t, i + 1)

\* line 97: the "safety margin"
SafetyMargin == 10

\* lines 91-128: the loop over the matches, then the remaining text
RECURSIVE ReplaceMatches(_, _, _, _, _, _)
ReplaceMatches(matches, replacement, t, is_removal, result, last_end) ==
    IF matches = <<>> THEN result \o Slice(t, last_end, Len(t))
    ELSE
      LET match == Head(matches)
          before == result \o Slice(t, last_end, match.start)
          paren_start_in_text == Find(t, "(", match.start)
      IN IF paren_start_in_text = -1 \/ paren_start_in_text >= match.end + SafetyMargin
         THEN ReplaceMatches(Tail(matches), replacement, t, is_removal,
                             IF is_removal THEN before ELSE before \o replacement, match.end)
         ELSE
           LET paren_end == find_balanced_parentheses(t, paren_start_in_text) IN
           IF paren_end = -1
           THEN ReplaceMatches(Tail(matches), replacement, t, is_removal,
                               before \o Slice(t, match.start, match.end), match.end)
           ELSE IF is_removal
           THEN LET next_pos == paren_end + 1 IN
                ReplaceMatches(Tail(matches), replacement, t, is_removal, before,
                               IF next_pos < Len(t) /\ At(t, next_pos) = ";"
                               THEN next_pos + 1 ELSE next_pos)
           ELSE ReplaceMatches(Tail(matches), replacement, t, is_removal,
                               before \o replacement
                                      \o Slice(t, paren_start_in_text, paren_end + 1),
                               paren_end + 1)

\* lines 86-128, for the pattern of one call head
safe_regex_replace(head, replacement, t, is_removal) ==
    ReplaceMatches(FindIter(head, t, 0), replacement, t, is_removal, <<>>, 0)

\* lines 356-362: the patterns handed to _safe_regex_replace, in their order
RewritePasses == <<"log.info", "log.warning", "log.error", LogOther, "print">>

\* the lexemes a text is made of here
Lexemes == {"print", "log.info", "(", ")", "\"", "x"}

\* the length of a text, and the number of call heads in it
MaxLen == 6
MaxHeads == 2

HeadCount(t) == Cardinality({i \in 1..Len(t) : t[i] \in DOMAIN Replacement \cup LogHeads})

\* a caller writes the text
TypeLexeme(c) ==
    /\ pc = "typing"
    /\ Len(text) < MaxLen
    /\ c \in DOMAIN Replacement \cup LogHeads => HeadCount(text) < MaxHeads
    /\ text' = Append(text, c)
    /\ UNCHANGED <<pc, rewritten, sortVars, sanitizeVars, buildVars, cacheVars, unitVars>>

\* lines 356-362: one _safe_regex_replace after the other, each on the result
\* of the one before; the results, in the order of the passes
RECURSIVE RunPasses(_, _)
RunPasses(passes, t) ==
    IF passes = <<>> THEN <<>>
    ELSE LET head == Head(passes)
             out == IF head = LogOther THEN safe_regex_replace(head, <<>>, t, TRUE)
                    ELSE safe_regex_replace(head, <<Replacement[head]>>, t, FALSE)
         IN <<out>> \o RunPasses(Tail(passes), out)

RewriteCalls ==
    /\ pc = "typing"
    /\ pc' = "rewritten"
    /\ rewritten' = RunPasses(RewritePasses, text)
    /\ UNCHANGED <<text, sortVars, sanitizeVars, buildVars, cacheVars, unitVars>>

InitRewrite ==
    /\ CacheIdle
    /\ UnitIdle
    /\ pc = "typing"
    /\ RewriteIdle
    /\ SortIdle
    /\ module_to_path_map = NestedPathMap
    /\ SanitizeIdle
    /\ BuildIdle

NextRewrite ==
    \/ \E c \in Lexemes : TypeLexeme(c)
    \/ RewriteCalls

SpecRewrite == InitRewrite /\ [][NextRewrite]_vars

\* the lexemes of a text with calls of log.debug, statement separators included
RemovalLexemes == {"log.debug", "log.info", "(", ")", ";", "x"}

NextRemove ==
    \/ \E c \in RemovalLexemes : TypeLexeme(c)
    \/ RewriteCalls

SpecRemove == InitRewrite /\ [][NextRemove]_vars

----------------------------------------------------------------------------
(* The other rewriting steps of sanitize_content, lines 343-353 *)

\* the position after the line that holds position i
RECURSIVE LineEnd(_, _)
LineEnd(t, i) ==
    IF i >= Len(t) THEN Len(t)
    ELSE IF At(t, i) = "\n" THEN i + 1
    ELSE LineEnd(t, i + 1)

\* \bword\b somewhere in the line
HasWord(word, line) ==
    \E k \in 0..(Len(line) - 1) :
        /\ At(line, k) = word
        /\ k = 0 \/ At(line, k - 1) \notin WordLexemes
        /\ k + 1 = Len(line) \/ At(line, k + 1) \notin WordLexemes

\* lines 36, 141 and 346, 353: pattern.sub("", text) of
\* ^[ \t]*[^\r\n]*\bword\b[^\r\n]*\r?\n? : every line holding the word goes,
\* with its line end
RECURSIVE RemoveLinesWith(_, _, _)
RemoveLinesWith(word, t, i) ==
    IF i >= Len(t) THEN <<>>
    ELSE LET e == LineEnd(t, i)
             line == Slice(t, i, e)
         IN (IF HasWord(word, line) THEN <<>> ELSE line) \o RemoveLinesWith(word, t, e)

\* the position after an optional run of white space and ";", or i
SkipSemicolon(t, i) ==
    IF SkipSpace(t, i) < Len(t) /\ At(t, SkipSpace(t, i)) = ";" THEN SkipSpace(t, i) + 1 ELSE i

\* line 139, \bloadlib\s*\(.*?\)(?:\s*;)? : where the match starting at i ends, or -1
LoadlibCallEnd(t, i) ==
    LET open == SkipSpace(t, i + 1)
        stop == LineEnd(t, open)
        close == Find(t, ")", open + 1)
    IN IF /\ At(t, i) = "loadlib"
          /\ i = 0 \/ At(t, i - 1) \notin WordLexemes
          /\ open < Len(t) /\ At(t, open) = "("
          /\ close # -1
          /\ \A k \in (open + 1)..close : At(t, k) # "\n"
       THEN SkipSemicolon(t, close + 1)
       ELSE -1

\* lines 344-345: the text of every loadlib call, one warning each
RECURSIVE LoadlibCalls(_, _)
LoadlibCalls(t, i) ==
    IF i >= Len(t) THEN <<>>
    ELSE IF LoadlibCallEnd(t, i) # -1
    THEN <<Slice(t, i, LoadlibCallEnd(t, i))>> \o LoadlibCalls(t, LoadlibCallEnd(t, i))
    ELSE LoadlibCalls(t, i + 1)

IsQuote(c) == c \in {"\"", "'"}

\* the position of the first quote at or after i, or Len(t)
RECURSIVE SkipToQuote(_, _)
SkipToQuote(t, i) == IF i < Len(t) /\ ~IsQuote(At(t, i)) THEN SkipToQuote(t, i + 1) ELSE i

\* lines 40-48, require\s*\(?\s*['"]([^'"]+)['"]\s*\)?(?:\s*;)? : where the match
\* starting at i ends, or -1
RequireEnd(t, i) ==
    LET a == SkipSpace(t, i + 1)
        b == IF a < Len(t) /\ At(t, a) = "(" THEN SkipSpace(t, a + 1) ELSE a
        q == SkipToQuote(t, b + 1)
        c == SkipSpace(t, q + 1)
        d == IF c < Len(t) /\ At(t, c) = ")" THEN c + 1 ELSE c
    IN IF /\ At(t, i) = "require"
          /\ b < Len(t) /\ IsQuote(At(t, b))
          /\ q > b + 1
          /\ q < Len(t)
       THEN SkipSemicolon(t, d)
       ELSE -1

\* line 349: REQUIRE_REMOVAL_PATTERN.sub("", text)
RECURSIVE RemoveRequires(_, _)
RemoveRequires(t, i) ==
    IF i >= Len(t) THEN <<>>
    ELSE IF RequireEnd(t, i) # -1 THEN RemoveRequires(t, RequireEnd(t, i))
    ELSE <<At(t, i)>> \o RemoveRequires(t, i + 1)

----------------------------------------------------------------------------
(* sanitize_content. The Lua parser (luaparser) is a library: the model    *)
(* holds the lines below and, for each, the nodes ast.walk yields for it.  *)

PlainLine   == <<"x">>                           \* a statement of no interest
GotoLine    == <<" ", "goto", " ", "x">>         \* "  goto x"
GotoComment == <<"--", "goto", " ", "x">>        \* "-- goto x"
OsCall      == <<"os", ".", "x", "(", ")">>      \* "os.x()"
IoCall      == <<"io", "(", ")">>                \* "io()"
LocalOs     == <<"local", " ", "os">>            \* "local os"
PrintCall   == <<"print", "(", "x", ")">>        \* "print(x)"
BrokenLine  == <<"(">>                           \* no Lua: the parser fails

\* require("<name>"), the name spelled character by character
RequireLine(name) == <<"require", "(", "\"">> \o name \o <<"\"", ")">>

RequireLines == {RequireLine(n) : n \in GraphNames}

RequireCall == RequireLine(<<"a", ".", "m">>)    \* require("a.m")
RequireSemi == RequireCall \o <<";">>            \* require("a.m");
RequireVar  == <<"require", "(", "x", ")">>      \* require(x)

LoadlibLine   == <<"loadlib", "(", "x", ")">>              \* loadlib(x)
LoadlibNested == <<"loadlib", "(", "x", "(", ")", ")">>    \* loadlib(x())

LoadlibLines == {LoadlibLine, LoadlibNested}

\* the lines of the files that call loadlib
LoadlibSourceLines == {PlainLine, PrintCall, OsCall, RequireSemi} \cup LoadlibLines

SourceLines == {PlainLine, GotoLine, GotoComment, OsCall, IoCall, LocalOs, PrintCall,
                BrokenLine, RequireCall, RequireSemi, RequireVar}

\* the nodes of a line that the checks look at, in the order of ast.walk: the
\* type; func.id of a Call or value.id of an Index when that is a Name; the
\* index name; args[0].s of a Call whose first argument is a String; the first
\* and last position of the node in the line
NodesOfLine(line) ==
    CASE line = GotoLine  -> << [type |-> "Goto", id |-> "", idx |-> "", arg |-> <<>>,
                                 start |-> 1, stop |-> 3] >>
      [] line = OsCall    -> << [type |-> "Call", id |-> "", idx |-> "", arg |-> <<>>,
                                 start |-> 0, stop |-> 4],
                                [type |-> "Index", id |-> "os", idx |-> "x", arg |-> <<>>,
                                 start |-> 0, stop |-> 2] >>
      [] line = IoCall    -> << [type |-> "Call", id |-> "io", idx |-> "", arg |-> <<>>,
                                 start |-> 0, stop |-> 2] >>
      [] line = LocalOs   -> << [type |-> "Name", id |-> "os", idx |-> "", arg |-> <<>>,
                                 start |-> 2, stop |-> 2] >>
      [] line = PrintCall -> << [type |-> "Call", id |-> "print", idx |-> "", arg |-> <<>>,
                                 start |-> 0, stop |-> 3] >>
      [] line \in RequireLines ->
                             << [type |-> "Call", id |-> "require", idx |-> "",
                                 arg |-> SubSeq(line, 4, Len(line) - 2),
                                 start |-> 0, stop |-> Len(line) - 1] >>
      [] line = RequireSemi ->
                             << [type |-> "Call", id |-> "require", idx |-> "",
                                 arg |-> SubSeq(line, 4, Len(line) - 3),
                                 start |-> 0, stop |-> Len(line) - 2] >>
      [] line = RequireVar -> << [type |-> "Call", id |-> "require", idx |-> "", arg |-> <<>>,
                                 start |-> 0, stop |-> 3] >>
      [] line = LoadlibLine ->
                             << [type |-> "Call", id |-> "loadlib", idx |-> "", arg |-> <<>>,
                                 start |-> 0, stop |-> 3] >>
      [] line = LoadlibNested ->
                             << [type |-> "Call", id |-> "loadlib", idx |-> "", arg |-> <<>>,
                                 start |-> 0, stop |-> 5],
                                [type |-> "Call", id |-> "x", idx |-> "", arg |-> <<>>,
                                 start |-> 2, stop |-> 4] >>
      [] OTHER            -> <<>>

\* the lines of a text, without their line ends
RECURSIVE SplitLines(_)
SplitLines(t) ==
    LET nl == Find(t, "\n", 0)
    IN IF nl = -1 THEN <<t>>
       ELSE <<Slice(t, 0, nl)>> \o SplitLines(Slice(t, nl + 1, Len(t)))

\* the nodes of the lines from number n on, the first of them at position offset
\* of the text; each node with its line number (first_token.line, from 1) and
\* its start_char and stop_char in the text
RECURSIVE WalkLines(_, _, _)
WalkLines(lines, n, offset) ==
    IF lines = <<>> THEN <<>>
    ELSE LET here == NodesOfLine(Head(lines))
         IN [k \in 1..Len(here) |->
                [type |-> here[k].type, id |-> here[k].id, idx |-> here[k].idx,
                 arg |-> here[k].arg, line |-> n,
                 start_char |-> offset + here[k].start,
                 stop_char |-> offset + here[k].stop]]
            \o WalkLines(Tail(lines), n + 1, offset + Len(Head(lines)) + 1)

\* line 278, ast.parse, and line 284, ast.walk: the parser raises on a text
\* that is no Lua
ParseAndWalk(t) ==
    IF \E i \in 1..Len(SplitLines(t)) : SplitLines(t)[i] = BrokenLine
    THEN [ok |-> FALSE, nodes |-> <<>>]
    ELSE [ok |-> TRUE, nodes |-> WalkLines(SplitLines(t), 1, 0)]

\* text.rfind(c, 0, end)
RFind(t, c, end) ==
    IF \E i \in 0..(end - 1) : At(t, i) = c
    THEN CHOOSE i \in 0..(end - 1) : At(t, i) = c /\ \A j \in (i + 1)..(end - 1) : At(t, j) # c
    ELSE -1

\* str.strip()
RECURSIVE Strip(_)
Strip(t) ==
    IF t = <<>> THEN <<>>
    ELSE IF IsSpace(Head(t)) THEN Strip(Tail(t))
    ELSE IF IsSpace(t[Len(t)]) THEN Strip(SubSeq(t, 1, Len(t) - 1))
    ELSE t

\* lines 289-294 and 330-335: the text of the line(s) the node stands on
OffendingLineText(t, node) ==
    LET line_start == RFind(t, "\n", node.start_char) + 1
        found == Find(t, "\n", node.stop_char)
        line_end == IF found = -1 THEN Len(t) ELSE found
    IN Strip(Slice(t, line_start, line_end))

RestrictedNames == {"os", "io", "lfs"}

\* the check that skips a restricted name called directly
NodeViolation_IndexOnly(node, strict) ==
    IF node.type = "Goto" THEN "goto"
    ELSE IF strict /\ node.type = "Index" /\ node.id \in RestrictedNames THEN "api"
    ELSE "none"

\* the check that takes the strict flag for the goto check too
NodeViolation_GotoWhenStrict(node, strict) ==
    IF strict /\ node.type = "Goto" THEN "goto"
    ELSE IF strict /\ node.type \in {"Call", "Index"} /\ node.id \in RestrictedNames THEN "api"
    ELSE "none"

\* lines 286-338: what the loop body does with one node
NodeViolation(node, strict) ==
    IF node.type = "Goto" THEN "goto"
    ELSE IF strict /\ node.type \in {"Call", "Index"} /\ node.id \in RestrictedNames THEN "api"
    ELSE "none"

\* lines 284-338: the first node of the walk at which the loop raises, or 0
FirstViolation(nodes, strict) ==
    IF \E k \in 1..Len(nodes) : NodeViolation(nodes[k], strict) # "none"
    THEN CHOOSE k \in 1..Len(nodes) :
             /\ NodeViolation(nodes[k], strict) # "none"
             /\ \A j \in 1..(k - 1) : NodeViolation(nodes[j], strict) = "none"
    ELSE 0

\* lines 316 and 320-325
OffendingId(node) ==
    IF node.type = "Call"
    THEN <<node.id, "() call pattern (potential direct library call)">>
    ELSE <<node.id, ".", node.idx>>

\* lines 295-297 and 336-338: the exception raised
DisallowedError(t, file_path, node, strict) ==
    [kind |-> NodeViolation(node, strict),
     file_path |-> file_path,
     line_num |-> node.line,
     line_text |-> OffendingLineText(t, node),
     offending_id |-> IF NodeViolation(node, strict) = "api" THEN OffendingId(node) ELSE <<>>]

\* lines 341-362: the rewriting steps, each on the result of the one before
RewriteAll(t) ==
    LET no_loadlib == RemoveLinesWith("loadlib", t, 0)
        no_require == RemoveRequires(no_loadlib, 0)
        no_package == RemoveLinesWith("package", no_require, 0)
        passes == RunPasses(RewritePasses, no_package)
    IN passes[Len(passes)]

\* the function without lines 266-267: every file is validated and rewritten
sanitize_content_EveryFile(t, file_path, lua, strict) ==
    LET tree == ParseAndWalk(t)
        first == FirstViolation(tree.nodes, strict)
    IN IF ~tree.ok
       THEN [status |-> "returned", content |-> t, warnings |-> <<>>,
             error |-> [kind |-> "parse"]]
       ELSE IF first # 0
       THEN [status |-> "raised", content |-> <<>>, warnings |-> <<>>,
             error |-> DisallowedError(t, file_path, tree.nodes[first], strict)]
       ELSE [status |-> "returned", content |-> RewriteAll(t),
             warnings |-> LoadlibCalls(t, 0), error |-> [kind |-> "none"]]

\* lines 264-370
sanitize_content(t, file_path, lua, strict) ==
    IF ~lua
    THEN [status |-> "returned", content |-> t, warnings |-> <<>>, error |-> [kind |-> "none"]]
    ELSE LET tree == ParseAndWalk(t)
             first == FirstViolation(tree.nodes, strict)
         IN IF ~tree.ok
            THEN [status |-> "returned", content |-> t, warnings |-> <<>>,
                  error |-> [kind |-> "parse"]]
            ELSE IF first # 0
            THEN [status |-> "raised", content |-> <<>>, warnings |-> <<>>,
                  error |-> DisallowedError(t, file_path, tree.nodes[first], strict)]
            ELSE [status |-> "returned", content |-> RewriteAll(t),
                  warnings |-> LoadlibCalls(t, 0), error |-> [kind |-> "none"]]

\* the path of the file sanitized
FilePath == "core/bad.lua"

\* the number of lines of a file
MaxLines == 3

LineCount(t) == IF t = <<>> THEN 0 ELSE Len(SplitLines(t))

\* the file is written, one line after the other
WriteLine(line) ==
    /\ pc = "writing"
    /\ LineCount(content) < MaxLines
    /\ content' = IF content = <<>> THEN line ELSE content \o <<"\n">> \o line
    /\ UNCHANGED <<pc, is_lua_module, dcs_strict_sanitize, sanitize_outcome, sortVars,
                   rewriteVars, buildVars, cacheVars, unitVars>>

\* lines 264-370: the call
Sanitize ==
    /\ pc = "writing"
    /\ content # <<>>
    /\ pc' = "sanitized"
    /\ sanitize_outcome' = sanitize_content(content, FilePath, is_lua_module, dcs_strict_sanitize)
    /\ UNCHANGED <<content, is_lua_module, dcs_strict_sanitize, sortVars, rewriteVars,
                   buildVars, cacheVars, unitVars>>

InitSanitize ==
    /\ CacheIdle
    /\ UnitIdle
    /\ pc = "writing"
    /\ content = <<>>
    /\ is_lua_module \in BOOLEAN
    /\ dcs_strict_sanitize \in BOOLEAN
    /\ sanitize_outcome = NotSanitized
    /\ SortIdle
    /\ module_to_path_map = NestedPathMap
    /\ RewriteIdle
    /\ BuildIdle

NextSanitize ==
    \/ \E line \in SourceLines : WriteLine(line)
    \/ Sanitize

SpecSanitize == InitSanitize /\ [][NextSanitize]_vars

NextLoadlib ==
    \/ \E line \in LoadlibSourceLines : WriteLine(line)
    \/ Sanitize

SpecLoadlib == InitSanitize /\ [][NextLoadlib]_vars

----------------------------------------------------------------------------
(* build_project: the source tree, the arguments and the environment.      *)
(* What a file holds and what a download returns is fixed when the build   *)
(* first looks at it.                                                      *)

\* the path segment ".."
Up == <<".", ".">>

\* None or "" where a relative path is expected
NoPath == <<>>

EntrypointName == <<"m", "a", "i", "n">>

\* header.txt and footer.txt: text files, no Lua modules
HeaderName == <<"h">>

FooterName == <<"f">>

\* the core modules of the project: a/m.lua, a/z.lua, b/m.lua
BuildCoreNames == { <<"a", ".", "m">>, <<"a", ".", "z">>, <<"b", ".", "m">> }

NamespacePath == <<NamespaceName>>

EntrypointPath == <<EntrypointName>>

HeaderPath == <<HeaderName>>

FooterPath == <<FooterName>>

CorePaths == {NestedPathMap[m] : m \in BuildCoreNames}

\* lines 144-151: the .lua files below the source directory
find_lua_files == CorePaths \cup {NamespacePath, EntrypointPath}

TreePaths == find_lua_files \cup {HeaderPath, FooterPath}

\* what the build knows of a file it has not read
NotChecked == <<"<not checked>">>

Missing == <<"<missing>">>

Present == <<"<present>">>

\* a text no sanitizable file could hold unchanged: a goto, an os call, a print call
VerbatimText == GotoLine \o <<"\n">> \o OsCall \o <<"\n">> \o PrintCall

\* the texts a file of the tree can hold
TextsOf(p) ==
    CASE p \in {HeaderPath, FooterPath} -> {VerbatimText}
      [] p = NamespacePath -> {PrintCall, GotoLine}
      [] p = EntrypointPath -> {PrintCall, GotoLine, OsCall}
      [] OTHER -> {PrintCall, GotoLine, BrokenLine}
                  \cup {RequireLine(n) \o <<"\n">> \o PlainLine :
                           n \in (BuildCoreNames \ {get_module_name_from_path(p)})
                                 \cup {NamespaceName}}

\* Path.resolve() of root / rel, for the part `below` the root already walked:
\* ".." leaves a directory, and leaves the root when there is none to leave
RECURSIVE Normalize(_, _)
Normalize(rel, below) ==
    IF rel = <<>> THEN [outside |-> FALSE, path |-> below]
    ELSE IF Head(rel) = Up
    THEN IF below = <<>> THEN [outside |-> TRUE, path |-> rel]
         ELSE Normalize(Tail(rel), Parent(below))
    ELSE Normalize(Tail(rel), Append(below, Head(rel)))

\* the helper without the check of lines 399-405
validate_and_resolve_path_Unchecked(file_rel) ==
    IF file_rel = NoPath THEN [status |-> "returned", path |-> NoneValue]
    ELSE [status |-> "returned", path |-> Normalize(file_rel, <<>>).path]

\* lines 389-405
validate_and_resolve_path(file_rel) ==
    IF file_rel = NoPath THEN [status |-> "returned", path |-> NoneValue]
    ELSE IF Normalize(file_rel, <<>>).outside THEN [status |-> "raised", path |-> NoneValue]
    ELSE [status |-> "returned", path |-> Normalize(file_rel, <<>>).path]

\* lines 408-411
header_path == validate_and_resolve_path(header_file_rel).path

namespace_path == validate_and_resolve_path(namespace_file_rel).path

entrypoint_path == validate_and_resolve_path(entrypoint_file_rel).path

footer_path == validate_and_resolve_path(footer_file_rel).path

\* line 432
fixed_order_paths == {header_path, namespace_path, entrypoint_path, footer_path} \ {NoneValue}

\* one entry of the log
Event(op, target) == <<op, target>>

\* one element of final_lua_code: the literal the code appends, named by kind,
\* with what it is about and the text it carries
Piece(kind, of, t) == [kind |-> kind, of |-> of, text |-> t]

Newline == Piece("newline", <<>>, <<>>)

\* sep.join(list)
RECURSIVE JoinWith(_, _)
JoinWith(list, sep) ==
    IF list = <<>> THEN <<>>
    ELSE IF Len(list) = 1 THEN list[1]
    ELSE list[1] \o sep \o JoinWith(Tail(list), sep)

\* the concatenation of a list of lists
RECURSIVE Concat(_)
Concat(lists) == IF lists = <<>> THEN <<>> ELSE Head(lists) \o Concat(Tail(lists))

\* the function raises: the error leaves build_project
Raise(error) ==
    /\ pc' = "build_done"
    /\ build_outcome' = [status |-> "raised", error |-> error]

\* lines 366-370: what sanitize_content prints when it swallows an exception
SanitizeLog(result, path) ==
    IF result.error.kind = "parse" THEN <<Event("print_error", path)>> ELSE <<>>

----------------------------------------------------------------------------
(* External dependencies (dependency_manager.py) *)

\* a URL dependency with a license, a local dependency without, and a release
\* dependency that names no file
DepUrl == [name |-> "u", type |-> "url", source |-> << <<"u">> >>, file |-> "",
           license |-> << <<"l">> >>, description |-> ""]

DepLocal == [name |-> "l", type |-> "local", source |-> << <<"l", "i", "b">>, <<"l">> >>,
             file |-> "", license |-> NoPath, description |-> "d"]

DepNoFile == [name |-> "g", type |-> "github_release", source |-> << <<"o">>, <<"r">> >>,
              file |-> "", license |-> NoPath, description |-> ""]

\* a local dependency with a license beside it
DepLicensed == [name |-> "c", type |-> "local", source |-> << <<"l", "i", "b">>, <<"c">> >>,
                file |-> "", license |-> << <<"l", "i", "b">>, <<"t">> >>, description |-> ""]

\* a local dependency whose source leaves the base directory
DepOutside == [name |-> "p", type |-> "local", source |-> << Up, Up, <<"p">> >>,
               file |-> "", license |-> NoPath, description |-> ""]

\* a local dependency whose license leaves the base directory
DepLicenseOutside == [name |-> "q", type |-> "local", source |-> << <<"q">> >>,
                      file |-> "", license |-> << Up, <<"t">> >>, description |-> ""]

\* the file f of the latest release of o/r, with the license file t
DepRelease == [name |-> "r", type |-> "github_release",
               source |-> << <<"o">>, <<"r", "@", "latest">> >>,
               file |-> "f", license |-> << <<"t">> >>, description |-> ""]

\* a declaration without a type
DepNoType == [name |-> "n", type |-> "", source |-> << <<"n">> >>, file |-> "",
              license |-> NoPath, description |-> ""]

Declarations == {DepUrl, DepLocal, DepLicensed, DepOutside, DepLicenseOutside, DepRelease,
                 DepNoFile, DepNoType}

\* the declared lists of the specification of the dependencies alone
DeclaredLists == {<<d>> : d \in Declarations} \cup {<<d, e>> : d, e \in Declarations}

\* the declared lists of the model
DependencyConfigs == { <<>>, <<DepUrl, DepLocal>>, <<DepLocal, DepNoFile>> }

\* dependency_manager.py lines 28-40: the ValueError of a declaration, or "none"
DependencyError(config) ==
    IF config.name = "" THEN "no name"
    ELSE IF config.type = "" THEN "no type"
    ELSE IF config.type \notin {"github_release", "url", "local"} THEN "invalid type"
    ELSE IF config.source = NoPath THEN "no source"
    ELSE IF config.type = "github_release" /\ config.file = "" THEN "no file"
    ELSE "none"

\* the function that builds no Dependency object: nothing is validated
load_dependencies_config_Lazy(deps_config) ==
    [status |-> "returned", error |-> [kind |-> "none"]]

\* dependency_manager.py lines 219-234: the first declaration that raises
load_dependencies_config(deps_config) ==
    IF \E i \in 1..Len(deps_config) : DependencyError(deps_config[i]) # "none"
    THEN LET bad == CHOOSE i \in 1..Len(deps_config) :
                        /\ DependencyError(deps_config[i]) # "none"
                        /\ \A j \in 1..(i - 1) : DependencyError(deps_config[j]) = "none"
         IN [status |-> "raised",
             error |-> [kind |-> "dependency_config", name |-> deps_config[bad].name,
                        what |-> DependencyError(deps_config[bad])]]
    ELSE [status |-> "returned", error |-> [kind |-> "none"]]

\* a download that fails, a file that is not there
Unavailable == <<"<unavailable>">>

\* a file that is there and that open() or read() fails on: a directory, a
\* file without read permission
Unreadable == <<"<unreadable>">>

\* license_content = None
NoLicense == <<>>

DependencyTexts == {PrintCall, GotoLine}

LicenseTexts == {PlainLine}

\* what the network and the file system hold for a dependency: the tag of the
\* latest release, the content, the license
RemoteAnswers(dep) ==
    [tag : IF dep.type = "github_release" THEN {<<"v">>, Unavailable} ELSE {Unavailable},
     content : DependencyTexts \cup {Unavailable}
               \cup (IF dep.type = "local" THEN {Unreadable} ELSE {}),
     license : IF dep.license = NoPath THEN {Unavailable}
               ELSE LicenseTexts \cup {Unavailable}
                    \cup (IF dep.type = "local" THEN {Unreadable} ELSE {})]

\* the result of a fetch that raises
FetchRaised(dep, kind, events) ==
    [status |-> "raised", lua_content |-> <<>>, license_content |-> NoLicense,
     error |-> [kind |-> kind, name |-> dep.name], log |-> events]

\* dependency_manager.py lines 103-109 and 119-124: the license of a release
\* or URL dependency, downloaded inside try/except
DownloadLicense(dep, remote) ==
    IF dep.license = NoPath THEN [content |-> NoLicense, log |-> <<>>]
    ELSE IF remote.license = Unavailable
    THEN [content |-> NoLicense,
          log |-> <<Event("fetch_license", dep.license), Event("failed", dep.license),
                    Event("print_warning", dep.license)>>]
    ELSE [content |-> remote.license, log |-> <<Event("fetch_license", dep.license)>>]

\* dependency_manager.py line 74, re.match(r"^([^/]+)/([^@]+)@(.+)$", source):
\* an owner, "/", a repository up to the first "@", a tag
ReleaseSource(source) ==
    LET rest == JoinWith(Tail(source), <<"/">>)
        at == Find(rest, "@", 0)
    IN IF Len(source) >= 2 /\ Head(source) # <<>> /\ at >= 1 /\ at + 1 < Len(rest)
       THEN [ok |-> TRUE, tag |-> Slice(rest, at + 1, Len(rest))]
       ELSE [ok |-> FALSE, tag |-> <<>>]

\* dependency_manager.py lines 70-111
fetch_github_release(dep, remote) ==
    LET parsed == ReleaseSource(dep.source)
        latest == parsed.tag = <<"latest">>
        lookup == IF latest THEN <<Event("fetch_tag", dep.source)>> ELSE <<>>
        license == DownloadLicense(dep, remote)
    IN IF ~parsed.ok THEN FetchRaised(dep, "release_source", <<>>)
       ELSE IF latest /\ remote.tag = Unavailable
       THEN FetchRaised(dep, "latest_release", lookup \o <<Event("failed", dep.source)>>)
       ELSE IF remote.content = Unavailable
       THEN FetchRaised(dep, "download",
                        lookup \o <<Event("fetch", dep.source), Event("failed", dep.source)>>)
       ELSE [status |-> "returned", lua_content |-> remote.content,
             license_content |-> license.content, error |-> [kind |-> "none"],
             log |-> lookup \o <<Event("fetch", dep.source)>> \o license.log]

\* dependency_manager.py lines 113-126 (and 165-189 for each download)
fetch_url(dep, remote) ==
    LET license == DownloadLicense(dep, remote)
    IN IF remote.content = Unavailable
       THEN FetchRaised(dep, "download",
                        <<Event("fetch", dep.source), Event("failed", dep.source)>>)
       ELSE [status |-> "returned", lua_content |-> remote.content,
             license_content |-> license.content, error |-> [kind |-> "none"],
             log |-> <<Event("fetch", dep.source)>> \o license.log]

\* dependency_manager.py lines 148-161: the license of a local dependency;
\* only ValueError is caught
ReadLicense(dep, remote) ==
    IF dep.license = NoPath THEN [status |-> "returned", content |-> NoLicense, log |-> <<>>]
    ELSE IF Normalize(dep.license, <<>>).outside
    THEN [status |-> "returned", content |-> NoLicense,
          log |-> <<Event("print_warning", dep.license)>>]
    ELSE IF remote.license = Unavailable
    THEN [status |-> "returned", content |-> NoLicense,
          log |-> <<Event("exists_license", dep.license), Event("failed", dep.license),
                    Event("print_warning", dep.license)>>]
    ELSE IF remote.license = Unreadable
    THEN [status |-> "raised", content |-> NoLicense,
          log |-> <<Event("exists_license", dep.license), Event("read_license", dep.license),
                    Event("failed", dep.license)>>]
    ELSE [status |-> "returned", content |-> remote.license,
          log |-> <<Event("exists_license", dep.license),
                    Event("read_license", dep.license)>>]

\* the function without the checks of lines 135-140 and 151
fetch_local_Unchecked(dep, remote) ==
    IF remote.content \in {Unavailable, Unreadable}
    THEN FetchRaised(dep, "not_found", <<Event("exists", dep.source)>>)
    ELSE [status |-> "returned", lua_content |-> remote.content,
          license_content |-> IF dep.license # NoPath /\ remote.license \in LicenseTexts
                              THEN remote.license ELSE NoLicense,
          error |-> [kind |-> "none"],
          log |-> <<Event("exists", dep.source), Event("read", dep.source)>>
                  \o (IF dep.license = NoPath THEN <<>>
                      ELSE <<Event("exists_license", dep.license),
                             Event("read_license", dep.license)>>)]

\* dependency_manager.py lines 128-163
fetch_local(dep, remote) ==
    LET license == ReadLicense(dep, remote)
        opened == <<Event("exists", dep.source), Event("read", dep.source)>>
    IN IF Normalize(dep.source, <<>>).outside THEN FetchRaised(dep, "path_outside", <<>>)
       ELSE IF remote.content = Unavailable
       THEN FetchRaised(dep, "not_found",
                        <<Event("exists", dep.source), Event("failed", dep.source)>>)
       ELSE IF remote.content = Unreadable
       THEN FetchRaised(dep, "os_error", opened \o <<Event("failed", dep.source)>>)
       ELSE IF license.status = "raised"
       THEN FetchRaised(dep, "os_error", opened \o license.log)
       ELSE [status |-> "returned", lua_content |-> remote.content,
             license_content |-> license.content, error |-> [kind |-> "none"],
             log |-> opened \o license.log]

\* dependency_manager.py lines 50-68; a declaration of another type does not
\* pass load_dependencies_config
fetch_dependency(dep, remote) ==
    IF dep.type = "github_release" THEN fetch_github_release(dep, remote)
    ELSE IF dep.type = "url" THEN fetch_url(dep, remote)
    ELSE fetch_local(dep, remote)

\* dependency_manager.py lines 191-216
format_dependency_block(dep, lua_content, license_content) ==
    LET license_lines == SplitLines(Strip(license_content))
        lines == << <<"\n", "-- External Dependency: ", dep.name>> >>
                 \o (IF dep.description # "" THEN << <<"-- Description: ", dep.description>> >>
                     ELSE <<>>)
                 \o << <<"-- Source: ">> \o JoinWith(dep.source, <<"/">>) >>
                 \o (IF dep.type = "github_release" THEN << <<"-- File: ", dep.file>> >>
                     ELSE <<>>)
                 \o (IF license_content # NoLicense
                     THEN << <<"-- License:">> >>
                          \o [i \in 1..Len(license_lines) |->
                                 IF license_lines[i] # <<>> THEN <<"-- ">> \o license_lines[i]
                                 ELSE <<"--">>]
                     ELSE <<>>)
                 \o << <<>>, lua_content >>
    IN JoinWith(lines, <<"\n">>)

----------------------------------------------------------------------------
(* build_project, lines 373-614 *)

\* lines 408-411: the roles in the order their paths are resolved
ResolveOrder ==
    << [role |-> "Header", rel |-> header_file_rel],
       [role |-> "Namespace", rel |-> namespace_file_rel],
       [role |-> "Entrypoint", rel |-> entrypoint_file_rel],
       [role |-> "Footer", rel |-> footer_file_rel] >>

\* the checks with the entrypoint looked for before the namespace
ExistenceOrder_EntrypointFirst ==
    << [role |-> "Entrypoint", path |-> entrypoint_path],
       [role |-> "Namespace", path |-> namespace_path] >>
    \o (IF header_file_rel # NoPath THEN << [role |-> "Header", path |-> header_path] >>
        ELSE <<>>)
    \o (IF footer_file_rel # NoPath THEN << [role |-> "Footer", path |-> footer_path] >>
        ELSE <<>>)

\* lines 414-421: the roles in the order their files are looked for
ExistenceOrder ==
    << [role |-> "Namespace", path |-> namespace_path],
       [role |-> "Entrypoint", path |-> entrypoint_path] >>
    \o (IF header_file_rel # NoPath THEN << [role |-> "Header", path |-> header_path] >>
        ELSE <<>>)
    \o (IF footer_file_rel # NoPath THEN << [role |-> "Footer", path |-> footer_path] >>
        ELSE <<>>)

\* the first element of a list of Booleans that holds, or 0
FirstTrue(flags) ==
    IF \E i \in 1..Len(flags) : flags[i]
    THEN CHOOSE i \in 1..Len(flags) : flags[i] /\ \A j \in 1..(i - 1) : ~flags[j]
    ELSE 0

\* the source directory walked before the role paths are resolved and validated
ResolveRolePaths_DiscoverFirst ==
    /\ pc = "build"
    /\ LET bad == FirstTrue([i \in 1..Len(ResolveOrder) |->
                       validate_and_resolve_path(ResolveOrder[i].rel).status = "raised"])
           last == IF bad = 0 THEN Len(ResolveOrder) ELSE bad
       IN /\ log' = <<Event("mkdir", <<"output parent">>), Event("walk", <<>>)>>
                    \o Concat([i \in 1..last |->
                           IF ResolveOrder[i].rel = NoPath THEN <<>>
                           ELSE <<Event("resolve", ResolveOrder[i].rel)>>])
          /\ IF bad # 0
             THEN Raise([kind |-> "path_outside", role |-> ResolveOrder[bad].role,
                         file_rel |-> ResolveOrder[bad].rel])
             ELSE /\ pc' = "paths_resolved"
                  /\ UNCHANGED build_outcome
    /\ UNCHANGED <<buildArgs, fetched_contents, files, loop_index, final_lua_code, output_file, sortVars,
                   rewriteVars, sanitizeVars, cacheVars, unitVars>>

\* lines 384-411: the output directory is made, the role paths are resolved
\* and validated
ResolveRolePaths ==
    /\ pc = "build"
    /\ LET bad == FirstTrue([i \in 1..Len(ResolveOrder) |->
                       validate_and_resolve_path(ResolveOrder[i].rel).status = "raised"])
           last == IF bad = 0 THEN Len(ResolveOrder) ELSE bad
       IN /\ log' = <<Event("mkdir", <<"output parent">>)>>
                    \o Concat([i \in 1..last |->
                           IF ResolveOrder[i].rel = NoPath THEN <<>>
                           ELSE <<Event("resolve", ResolveOrder[i].rel)>>])
          /\ IF bad # 0
             THEN Raise([kind |-> "path_outside", role |-> ResolveOrder[bad].role,
                         file_rel |-> ResolveOrder[bad].rel])
             ELSE /\ pc' = "paths_resolved"
                  /\ UNCHANGED build_outcome
    /\ UNCHANGED <<buildArgs, fetched_contents, files, loop_index, final_lua_code, output_file, sortVars,
                   rewriteVars, sanitizeVars, cacheVars, unitVars>>

\* lines 413-421: is_file() of the role files, up to the first that is missing
CheckRoleFiles ==
    /\ pc = "paths_resolved"
    /\ \E missing \in 0..Len(ExistenceOrder) :
         LET last == IF missing = 0 THEN Len(ExistenceOrder) ELSE missing
         IN /\ files' = [p \in DOMAIN files |->
                            IF missing # 0 /\ p = ExistenceOrder[missing].path THEN Missing
                            ELSE IF \E i \in 1..last : p = ExistenceOrder[i].path THEN Present
                            ELSE files[p]]
            /\ log' = log \o [i \in 1..last |-> Event("is_file", ExistenceOrder[i].path)]
            /\ IF missing # 0
               THEN Raise([kind |-> "missing_file", role |-> ExistenceOrder[missing].role,
                           path |-> ExistenceOrder[missing].path])
               ELSE /\ pc' = "files_checked"
                    /\ UNCHANGED build_outcome
    /\ UNCHANGED <<buildArgs, fetched_contents, loop_index, final_lua_code, output_file, sortVars, rewriteVars,
                   sanitizeVars, cacheVars, unitVars>>

\* lines 423-435: the walk of the source directory; no two files of the tree
\* share a module name
DiscoverModules ==
    /\ pc = "files_checked"
    /\ pc' = "discovered"
    /\ module_to_path_map' =
           [m \in {get_module_name_from_path(p) : p \in find_lua_files} |->
               CHOOSE p \in find_lua_files : get_module_name_from_path(p) = m]
    /\ all_modules_to_sort' =
           {get_module_name_from_path(p) : p \in find_lua_files \ fixed_order_paths}
    /\ log' = Append(log, Event("walk", <<>>))
    /\ UNCHANGED <<buildArgs, fetched_contents, files, loop_index, final_lua_code, output_file, build_outcome,
                   dependencies_graph, in_degree, adj, processing_queue, sorted_order,
                   current_directory_context, sort_outcome, rewriteVars, sanitizeVars,
                   cacheVars, unitVars>>

\* lines 165-190: the literal arguments of the require calls; an exception of
\* the parser is printed and swallowed
parse_dependencies(t) ==
    LET tree == ParseAndWalk(t)
    IN IF ~tree.ok THEN {}
       ELSE {tree.nodes[k].arg :
                k \in {j \in 1..Len(tree.nodes) :
                          /\ tree.nodes[j].type = "Call"
                          /\ tree.nodes[j].id = "require"
                          /\ tree.nodes[j].arg # <<>>}}

\* lines 437-449: every core file is read and parsed for its require calls
ExtractDependencies ==
    /\ pc = "discovered"
    /\ pc' = "extracted"
    /\ LET core_module_paths == {module_to_path_map[m] : m \in all_modules_to_sort}
           order == SortedSet(all_modules_to_sort)
       IN \E texts \in [core_module_paths -> UNION {TextsOf(p) : p \in core_module_paths}] :
             /\ \A p \in core_module_paths : texts[p] \in TextsOf(p)
             /\ files' = [p \in DOMAIN files |->
                             IF p \in core_module_paths THEN texts[p] ELSE files[p]]
             /\ dependencies_graph' =
                    [m \in all_modules_to_sort |->
                        parse_dependencies(texts[module_to_path_map[m]])
                            \cap all_modules_to_sort]
             /\ log' = log \o Concat([i \in 1..Len(order) |->
                           <<Event("read", module_to_path_map[order[i]])>>
                           \o (IF ParseAndWalk(texts[module_to_path_map[order[i]]]).ok
                               THEN <<>>
                               ELSE <<Event("print_error", module_to_path_map[order[i]])>>)])
    /\ UNCHANGED <<buildArgs, fetched_contents, loop_index, final_lua_code, output_file, build_outcome,
                   all_modules_to_sort, module_to_path_map, in_degree, adj, processing_queue,
                   sorted_order, current_directory_context, sort_outcome, rewriteVars,
                   sanitizeVars, cacheVars, unitVars>>

\* lines 461-469: the call of topological_sort; its exception is printed and
\* build_project returns
SortCoreModules ==
    /\ pc = "extracted"
    /\ sort_outcome' =
           IF all_modules_to_sort = {}
           THEN [status |-> "returned", order |-> <<>>, problematic_modules |-> {},
                 missing_from_sorted |-> {}]
           ELSE topological_sort(dependencies_graph, all_modules_to_sort, module_to_path_map)
    /\ IF sort_outcome'.status = "raised"
       THEN /\ pc' = "build_done"
            /\ build_outcome' = [status |-> "returned", error |-> [kind |-> "none"]]
            /\ log' = Append(log, Event("print_error", <<"topological sort">>))
       ELSE /\ pc' = "sorted"
            /\ UNCHANGED <<build_outcome, log>>
    /\ UNCHANGED <<buildArgs, fetched_contents, files, loop_index, final_lua_code, output_file,
                   dependencies_graph, all_modules_to_sort, module_to_path_map, in_degree, adj,
                   processing_queue, sorted_order, current_directory_context, rewriteVars,
                   sanitizeVars, cacheVars, unitVars>>

\* line 465
sorted_core_module_names == sort_outcome.order

\* the pieces put at the head of the list instead of its end
Appended_AtFront(code, pieces) == pieces \o code

\* final_lua_code.append(...) for each of the pieces
Appended(code, pieces) == code \o pieces

\* lines 474-486: the header, as it is
EmitHeader ==
    /\ pc = "sorted"
    /\ pc' = "header_done"
    /\ IF header_path # NoneValue /\ files[header_path] # Missing
       THEN \E t \in TextsOf(header_path) :
               /\ files' = [files EXCEPT ![header_path] = t]
               /\ log' = log \o <<Event("is_file", header_path), Event("read", header_path)>>
               /\ final_lua_code' = Appended(final_lua_code,
                      << Piece("header_content", header_path,
                               sanitize_content(t, header_path, FALSE, FALSE).content),
                         Newline >>)
       ELSE UNCHANGED <<files, log, final_lua_code>>
    /\ UNCHANGED <<buildArgs, fetched_contents, loop_index, output_file, build_outcome, sortVars, rewriteVars,
                   sanitizeVars, cacheVars, unitVars>>

\* lines 489-492: the declared list is validated as a whole
LoadDependencies ==
    /\ pc = "header_done"
    /\ loop_index' = 0
    /\ IF dependencies_config # <<>>
          /\ load_dependencies_config(dependencies_config).status = "raised"
       THEN /\ Raise(load_dependencies_config(dependencies_config).error)
            /\ log' = log \o <<Event("mkdir", <<"cache">>),
                              Event("print_error", <<"dependency">>)>>
       ELSE /\ pc' = "dependencies"
            /\ log' = IF dependencies_config # <<>>
                      THEN Append(log, Event("mkdir", <<"cache">>)) ELSE log
            /\ UNCHANGED build_outcome
    /\ UNCHANGED <<buildArgs, fetched_contents, files, final_lua_code, output_file, sortVars, rewriteVars,
                   sanitizeVars, cacheVars, unitVars>>

\* lines 494-513: one dependency is fetched, sanitized and appended
FetchDependency ==
    /\ pc = "dependencies"
    /\ loop_index < Len(dependencies_config)
    /\ LET dep == dependencies_config[loop_index + 1]
           path == <<"dependency", dep.name>>
       IN \E remote \in RemoteAnswers(dep) :
             LET fetched == fetch_dependency(dep, remote)
             IN \E sanitized \in {sanitize_content(fetched.lua_content, path, TRUE,
                                                   dcs_strict_sanitize)} :
                IF fetched.status = "raised"
                THEN /\ Raise(fetched.error)
                     /\ log' = log \o fetched.log \o <<Event("print_error", path)>>
                     /\ UNCHANGED <<loop_index, final_lua_code, fetched_contents>>
                ELSE IF sanitized.status = "raised"
                THEN /\ Raise(sanitized.error)
                     /\ log' = log \o fetched.log \o <<Event("print_error", path)>>
                     /\ UNCHANGED <<loop_index, final_lua_code, fetched_contents>>
                ELSE /\ loop_index' = loop_index + 1
                     /\ fetched_contents' =
                            Append(fetched_contents,
                                   [lua_content |-> fetched.lua_content,
                                    license_content |-> fetched.license_content])
                     /\ log' = log \o fetched.log \o SanitizeLog(sanitized, path)
                     /\ final_lua_code' = Appended(final_lua_code,
                            << Piece("dependency_block", <<dep.name>>,
                                     format_dependency_block(dep, sanitized.content,
                                                             fetched.license_content)),
                               Newline >>)
                     /\ UNCHANGED <<pc, build_outcome>>
    /\ UNCHANGED <<buildArgs, files, output_file, sortVars, rewriteVars, sanitizeVars, cacheVars, unitVars>>

\* datetime.now(): the values the clock can show
Timestamps == {"t1", "t2"}

\* the build information with the time of the clock in a second line as well
BuildInformation_StampedTwice(now) ==
    << Piece("generated_on", <<now>>, <<>>), Piece("do_not_edit", <<now>>, <<>>) >>
    \o << Piece("info_namespace_file", namespace_file_rel, <<>>),
          Piece("info_entrypoint_file", entrypoint_file_rel, <<>>),
          Piece("info_scope", <<scope>>, <<>>),
          Newline >>

\* lines 515-531: the build information
BuildInformation(now) ==
    << Piece("generated_on", <<now>>, <<>>), Piece("do_not_edit", <<>>, <<>>) >>
    \o (IF header_file_rel # NoPath
        THEN << Piece("info_header_file", header_file_rel, <<>>) >> ELSE <<>>)
    \o (IF dependencies_config # <<>>
        THEN << Piece("info_dependencies", <<Len(dependencies_config)>>, <<>>) >> ELSE <<>>)
    \o << Piece("info_namespace_file", namespace_file_rel, <<>>),
          Piece("info_entrypoint_file", entrypoint_file_rel, <<>>) >>
    \o (IF footer_file_rel # NoPath
        THEN << Piece("info_footer_file", footer_file_rel, <<>>) >> ELSE <<>>)
    \o << Piece("info_core_order", <<>>,
                IF sorted_core_module_names # <<>>
                THEN JoinWith(sorted_core_module_names, <<",", " ">>)
                ELSE <<"N", "o", "n", "e">>),
          Piece("info_scope", <<scope>>, <<>>),
          Newline >>

\* the opening marker whatever the scope
ScopeOpening_Always(s) ==
    << Piece("scope_open_comment", <<>>, <<>>), Piece("do", <<>>, <<>>), Newline >>

\* lines 533-537
ScopeOpening(s) ==
    IF s = "local"
    THEN << Piece("scope_open_comment", <<>>, <<>>), Piece("do", <<>>, <<>>), Newline >>
    ELSE <<>>

\* lines 588-591
ScopeClosing(s) ==
    IF s = "local"
    THEN << Piece("scope_close_comment", <<>>, <<>>), Piece("end", <<>>, <<>>) >>
    ELSE <<>>

\* lines 515-537: the clock is read, the build information and the opening
\* of the scope are appended
EmitBuildInformation ==
    /\ pc = "dependencies"
    /\ loop_index = Len(dependencies_config)
    /\ pc' = "information_done"
    /\ \E now \in Timestamps :
          final_lua_code' = Appended(final_lua_code,
                                     BuildInformation(now) \o ScopeOpening(scope))
    /\ UNCHANGED <<buildArgs, fetched_contents, files, loop_index, output_file, build_outcome, log, sortVars,
                   rewriteVars, sanitizeVars, cacheVars, unitVars>>

\* lines 539-550: the namespace file is read and sanitized
EmitNamespace ==
    /\ pc = "information_done"
    /\ loop_index' = 0
    /\ \E t \in TextsOf(namespace_path) :
          LET from == Piece("namespace_from", namespace_path, <<>>)
          IN \E sanitized \in {sanitize_content(t, namespace_path, TRUE,
                                                dcs_strict_sanitize)} :
             /\ files' = [files EXCEPT ![namespace_path] = t]
             /\ log' = log \o <<Event("read", namespace_path)>>
                           \o SanitizeLog(sanitized, namespace_path)
             /\ IF sanitized.status = "raised"
                THEN /\ Raise(sanitized.error)
                     /\ final_lua_code' = Appended(final_lua_code, <<from>>)
                ELSE /\ pc' = "core_modules"
                     /\ final_lua_code' = Appended(final_lua_code,
                            << from,
                               Piece("namespace_content", namespace_path, sanitized.content),
                               Newline >>)
                     /\ UNCHANGED build_outcome
    /\ UNCHANGED <<buildArgs, fetched_contents, output_file, sortVars, rewriteVars, sanitizeVars, cacheVars, unitVars>>

\* lines 558-571: one core module, in the sorted order, is read and sanitized
EmitCoreModule ==
    /\ pc = "core_modules"
    /\ loop_index < Len(sorted_core_module_names)
    /\ LET module_name == sorted_core_module_names[loop_index + 1]
           file_path == module_to_path_map[module_name]
           from == << Piece("core_from", file_path, <<>>),
                      Piece("core_name", module_name, <<>>) >>
       IN \E sanitized \in {sanitize_content(files[file_path], file_path, TRUE,
                                             dcs_strict_sanitize)} :
          /\ log' = log \o <<Event("read", file_path)>> \o SanitizeLog(sanitized, file_path)
          /\ IF sanitized.status = "raised"
             THEN /\ Raise(sanitized.error)
                  /\ final_lua_code' = Appended(final_lua_code, from)
                  /\ UNCHANGED loop_index
             ELSE /\ loop_index' = loop_index + 1
                  /\ final_lua_code' = Appended(final_lua_code,
                         from \o << Piece("core_content", module_name, sanitized.content),
                                    Newline >>)
                  /\ UNCHANGED <<pc, build_outcome>>
    /\ UNCHANGED <<buildArgs, fetched_contents, files, output_file, sortVars, rewriteVars, sanitizeVars, cacheVars, unitVars>>

\* lines 575-591: the entrypoint file is read and sanitized, the scope is closed
EmitEntrypoint ==
    /\ pc = "core_modules"
    /\ loop_index = Len(sorted_core_module_names)
    /\ \E t \in TextsOf(entrypoint_path) :
          LET from == Piece("entrypoint_from", entrypoint_path, <<>>)
          IN \E sanitized \in {sanitize_content(t, entrypoint_path, TRUE,
                                                dcs_strict_sanitize)} :
             /\ files' = [files EXCEPT ![entrypoint_path] = t]
             /\ log' = log \o <<Event("read", entrypoint_path)>>
                           \o SanitizeLog(sanitized, entrypoint_path)
             /\ IF sanitized.status = "raised"
                THEN /\ Raise(sanitized.error)
                     /\ final_lua_code' = Appended(final_lua_code, <<from>>)
                ELSE /\ pc' = "entrypoint_done"
                     /\ final_lua_code' = Appended(final_lua_code,
                            << from,
                               Piece("entrypoint_content", entrypoint_path,
                                     sanitized.content),
                               Newline >>
                            \o ScopeClosing(scope))
                     /\ UNCHANGED build_outcome
    /\ UNCHANGED <<buildArgs, fetched_contents, loop_index, output_file, sortVars, rewriteVars, sanitizeVars,
                   cacheVars, unitVars>>

\* lines 593-605: the footer, as it is
EmitFooter ==
    /\ pc = "entrypoint_done"
    /\ pc' = "assembled"
    /\ IF footer_path # NoneValue /\ files[footer_path] # Missing
       THEN \E t \in TextsOf(footer_path) :
               /\ files' = [files EXCEPT ![footer_path] = t]
               /\ log' = log \o <<Event("is_file", footer_path), Event("read", footer_path)>>
               /\ final_lua_code' = Appended(final_lua_code,
                      << Piece("footer_from", footer_path, <<>>),
                         Piece("footer_content", footer_path,
                               sanitize_content(t, footer_path, FALSE, FALSE).content),
                         Newline >>)
       ELSE UNCHANGED <<files, log, final_lua_code>>
    /\ UNCHANGED <<buildArgs, fetched_contents, loop_index, output_file, build_outcome, sortVars, rewriteVars,
                   sanitizeVars, cacheVars, unitVars>>

\* lines 607-614: the output file is opened and written; an error of the
\* file system is printed and build_project returns
WriteOutput ==
    /\ pc = "assembled"
    /\ pc' = "build_done"
    /\ build_outcome' = [status |-> "returned", error |-> [kind |-> "none"]]
    /\ \E opened \in BOOLEAN :
          IF opened
          THEN /\ output_file' = [exists |-> TRUE, data |-> final_lua_code]
               /\ log' = log \o <<Event("write", <<"output">>), Event("print", <<"success">>)>>
          ELSE /\ UNCHANGED output_file
               /\ log' = log \o <<Event("open_failed", <<"output">>),
                                 Event("print_error", <<"output">>)>>
    /\ UNCHANGED <<buildArgs, fetched_contents, files, loop_index, final_lua_code, sortVars, rewriteVars,
                   sanitizeVars, cacheVars, unitVars>>

InitBuild ==
    /\ CacheIdle
    /\ UnitIdle
    /\ pc = "build"
    /\ header_file_rel \in {NoPath, HeaderPath, <<Up>> \o HeaderPath}
    /\ namespace_file_rel \in {NamespacePath, <<Up>> \o NamespacePath}
    /\ entrypoint_file_rel \in {EntrypointPath, <<Up>> \o EntrypointPath}
    /\ footer_file_rel \in {NoPath, FooterPath, <<Up>> \o FooterPath}
    /\ dependencies_config \in DependencyConfigs
    /\ scope \in {"global", "local"}
    /\ dcs_strict_sanitize \in BOOLEAN
    /\ files = [p \in TreePaths |-> IF p \in CorePaths THEN Present ELSE NotChecked]
    /\ loop_index = 0
    /\ final_lua_code = <<>>
    /\ output_file = NoOutputFile
    /\ build_outcome = NoBuildOutcome
    /\ log = <<>>
    /\ fetched_contents = <<>>
    /\ dependencies_graph = <<>>
    /\ all_modules_to_sort = {}
    /\ module_to_path_map = <<>>
    /\ in_degree = <<>>
    /\ adj = <<>>
    /\ processing_queue = <<>>
    /\ sorted_order = <<>>
    /\ current_directory_context = NoneValue
    /\ sort_outcome = NoOutcome
    /\ RewriteIdle
    /\ content = <<>>
    /\ is_lua_module = TRUE
    /\ sanitize_outcome = NotSanitized

NextBuild ==
    \/ ResolveRolePaths
    \/ CheckRoleFiles
    \/ DiscoverModules
    \/ ExtractDependencies
    \/ SortCoreModules
    \/ EmitHeader
    \/ LoadDependencies
    \/ FetchDependency
    \/ EmitBuildInformation
    \/ EmitNamespace
    \/ EmitCoreModule
    \/ EmitEntrypoint
    \/ EmitFooter
    \/ WriteOutput

SpecBuild == InitBuild /\ [][NextBuild]_vars

\* lines 487-513 alone: a build without header that reaches the dependencies,
\* for every declared list; the log starts here
InitDependencies ==
    /\ CacheIdle
    /\ UnitIdle
    /\ pc = "header_done"
    /\ header_file_rel = NoPath
    /\ namespace_file_rel = NamespacePath
    /\ entrypoint_file_rel = EntrypointPath
    /\ footer_file_rel = NoPath
    /\ dependencies_config \in DeclaredLists
    /\ scope = "global"
    /\ dcs_strict_sanitize \in BOOLEAN
    /\ files = [p \in TreePaths |-> IF p \in {HeaderPath, FooterPath} THEN NotChecked
                                    ELSE Present]
    /\ loop_index = 0
    /\ final_lua_code = <<>>
    /\ output_file = NoOutputFile
    /\ build_outcome = NoBuildOutcome
    /\ log = <<>>
    /\ fetched_contents = <<>>
    /\ SortIdle
    /\ module_to_path_map = NestedPathMap
    /\ RewriteIdle
    /\ content = <<>>
    /\ is_lua_module = TRUE
    /\ sanitize_outcome = NotSanitized

NextDependencies ==
    \/ LoadDependencies
    \/ FetchDependency

SpecDependencies == InitDependencies /\ [][NextDependencies]_vars

----------------------------------------------------------------------------
(* The download cache (dependency_manager.py lines 165-189). The managers  *)
(* share one cache directory, as the builds of one machine do: cache_dir   *)
(* is tempfile.gettempdir() / "dcs-lua-composer-cache" unless given.       *)

Managers == {"m1", "m2"}

Urls == {"u", "v"}

CacheKey == "k"

\* lines 168-169: the cache file of a URL and a key; the model takes the 16
\* hexadecimal digits of the hash to differ for its URLs
CacheFile(url, key) == <<key, url>>

CacheFiles == {CacheFile(url, CacheKey) : url \in Urls}

\* what a URL can answer: a text with a Windows line end, a text with a Unix
\* line end; each lexeme is written to the cache file as one block
Contents == { <<"a", "\r\n", "b">>, <<"c", "\n">> }

NoFile == <<"<no file>">>

NothingYet == <<"<nothing>">>

\* the calls one manager makes
MaxCalls == 2

\* open(cache_file, "r").read(): text mode with universal newlines
TextRead(data) == [i \in 1..Len(data) |-> IF data[i] \in {"\r\n", "\r"} THEN "\n" ELSE data[i]]

\* write() at position offset of the file: behind the end of the data the file
\* system fills with zero bytes
WriteAt(data, offset, block) ==
    IF offset < Len(data) THEN [data EXCEPT ![offset + 1] = block]
    ELSE data \o [i \in 1..(offset - Len(data)) |-> "\\0"] \o <<block>>

NoCall == [pc |-> "idle", url |-> "", content |-> <<>>, written |-> 0, hit |-> FALSE,
           requested |-> FALSE, expected |-> NothingYet, status |-> "none",
           result |-> <<>>, count |-> 0]

Target(m) == CacheFile(calls[m].url, CacheKey)

\* the call ends and gives the content back; the first content a cache file
\* was ever returned with is remembered
ReturnContent(m, t) ==
    /\ calls' = [calls EXCEPT ![m].pc = "done", ![m].status = "returned", ![m].result = t]
    /\ first_content' = IF first_content[Target(m)] = NothingYet
                        THEN [first_content EXCEPT ![Target(m)] = t]
                        ELSE first_content

\* line 165: the manager calls _download_with_cache(url, key)
CallDownload(m, url) ==
    /\ calls[m].pc \in {"idle", "done"}
    /\ calls[m].count < MaxCalls
    /\ calls' = [calls EXCEPT ![m] = [NoCall EXCEPT !.pc = "check", !.url = url,
                                            !.expected = first_content[CacheFile(url, CacheKey)],
                                            !.count = calls[m].count + 1]]
    /\ UNCHANGED <<pc, cache_dir, first_content, sortVars, rewriteVars, sanitizeVars, buildVars, unitVars>>

\* line 172: cache_file.exists()
CheckCache(m) ==
    /\ calls[m].pc = "check"
    /\ calls' = [calls EXCEPT ![m].pc = IF cache_dir[Target(m)] # NoFile THEN "read"
                                        ELSE "download",
                              ![m].hit = cache_dir[Target(m)] # NoFile]
    /\ UNCHANGED <<pc, cache_dir, first_content, sortVars, rewriteVars, sanitizeVars, buildVars, unitVars>>

\* lines 173-175: the cache file is opened and read, as it is at that moment
ReadCache(m) ==
    /\ calls[m].pc = "read"
    /\ ReturnContent(m, TextRead(cache_dir[Target(m)]))
    /\ UNCHANGED <<pc, cache_dir, sortVars, rewriteVars, sanitizeVars, buildVars, unitVars>>

\* lines 178-181 and 187-188: the download; a failure raises RuntimeError
Download(m) ==
    /\ calls[m].pc = "download"
    /\ \E answer \in Contents \cup {Unavailable} :
          calls' = [calls EXCEPT ![m].requested = TRUE,
                                 ![m].content = IF answer = Unavailable THEN <<>> ELSE answer,
                                 ![m].pc = IF answer = Unavailable THEN "done" ELSE "open",
                                 ![m].status = IF answer = Unavailable THEN "raised"
                                               ELSE "none"]
    /\ UNCHANGED <<pc, cache_dir, first_content, sortVars, rewriteVars, sanitizeVars, buildVars, unitVars>>

\* line 184: open(cache_file, "w") makes the file, or empties the one there
OpenCacheFile(m) ==
    /\ calls[m].pc = "open"
    /\ cache_dir' = [cache_dir EXCEPT ![Target(m)] = <<>>]
    /\ calls' = [calls EXCEPT ![m].pc = "write", ![m].written = 0]
    /\ UNCHANGED <<pc, first_content, sortVars, rewriteVars, sanitizeVars, buildVars, unitVars>>

\* line 185: the next block of the content goes to the file
WriteBlock(m) ==
    /\ calls[m].pc = "write"
    /\ calls[m].written < Len(calls[m].content)
    /\ cache_dir' = [cache_dir EXCEPT ![Target(m)] =
                        WriteAt(@, calls[m].written, calls[m].content[calls[m].written + 1])]
    /\ calls' = [calls EXCEPT ![m].written = @ + 1]
    /\ UNCHANGED <<pc, first_content, sortVars, rewriteVars, sanitizeVars, buildVars, unitVars>>

\* lines 185 and 187-188: a write fails (the disk is full): RuntimeError, and
\* the file stays as it is
WriteFails(m) ==
    /\ calls[m].pc = "write"
    /\ calls[m].written < Len(calls[m].content)
    /\ calls' = [calls EXCEPT ![m].pc = "done", ![m].status = "raised"]
    /\ UNCHANGED <<pc, cache_dir, first_content, sortVars, rewriteVars, sanitizeVars,
                   buildVars, unitVars>>

\* lines 185-187: everything is written, the file is closed, the content
\* downloaded is returned
ReturnDownloaded(m) ==
    /\ calls[m].pc = "write"
    /\ calls[m].written = Len(calls[m].content)
    /\ ReturnContent(m, calls[m].content)
    /\ UNCHANGED <<pc, cache_dir, sortVars, rewriteVars, sanitizeVars, buildVars, unitVars>>

\* two managers on an empty cache directory
InitCache ==
    /\ UnitIdle
    /\ pc = "cache"
    /\ cache_dir = [f \in CacheFiles |-> NoFile]
    /\ calls = [m \in Managers |-> NoCall]
    /\ first_content = [f \in CacheFiles |-> NothingYet]
    /\ SortIdle
    /\ module_to_path_map = NestedPathMap
    /\ RewriteIdle
    /\ SanitizeIdle
    /\ BuildIdle

NextCache ==
    \E m \in Managers :
        \/ \E url \in Urls : CallDownload(m, url)
        \/ CheckCache(m)
        \/ ReadCache(m)
        \/ Download(m)
        \/ OpenCacheFile(m)
        \/ WriteBlock(m)
        \/ WriteFails(m)
        \/ ReturnDownloaded(m)

SpecCache == InitCache /\ [][NextCache]_vars

----------------------------------------------------------------------------
(* Properties of the rewriter *)

\* a call head at position i of t, followed by a balanced argument list
IsBalancedCall(head, t, i) ==
    /\ MatchesAt(head, t, i)
    /\ find_balanced_parentheses(t, MatchEnd(head, t, i)) # -1

\* t with the head of each such call replaced and every other lexeme kept
HeadsReplaced(head, t) ==
    [i \in 1..Len(t) |-> IF IsBalancedCall(head, t, i - 1) THEN Replacement[head] ELSE t[i]]

\* C10: each pass over print, log.info, log.warning or log.error replaces the
\* head of every call with a balanced argument list, nested calls included, and
\* nothing else: every other lexeme of its input is in its output exactly once,
\* in the same order.
C10_OnlyHeadsReplaced ==
    pc = "rewritten" =>
        \A k \in 1..Len(RewritePasses) :
            RewritePasses[k] # LogOther =>
                rewritten[k] = HeadsReplaced(RewritePasses[k],
                                             IF k = 1 THEN text ELSE rewritten[k - 1])

\* the heads the removal is for: log.<identifier>, the identifier not info,
\* warning or error (log.info with an identifier lexeme behind it spells a
\* longer identifier, which is none of the three)
OtherLogHeads == LogHeads \ DOMAIN Replacement

\* t from position i on, without the calls of such a head: each gone from its
\* head through the matching ")" and a ";" right behind it, all else kept
RECURSIVE CallsRemoved(_, _)
CallsRemoved(t, i) ==
    IF i >= Len(t) THEN <<>>
    ELSE IF /\ At(t, i) \in OtherLogHeads \/ (At(t, i) \in LogHeads /\ SkipIdent(t, i + 1) > i + 1)
            /\ IsBalancedCall(LogOther, t, i)
    THEN LET after == find_balanced_parentheses(t, MatchEnd(LogOther, t, i)) + 1
         IN CallsRemoved(t, IF after < Len(t) /\ At(t, after) = ";" THEN after + 1 ELSE after)
    ELSE <<At(t, i)>> \o CallsRemoved(t, i + 1)

\* the position of LogOther among the passes
RemovalPass == CHOOSE k \in 1..Len(RewritePasses) : RewritePasses[k] = LogOther

\* C11: the removal pass takes every call log.<identifier>(...), the identifier
\* not info, warning or error, out of the text, from its head through the
\* matching closing parenthesis and a ";" right behind it, and takes out nothing
\* else; it runs on the result of the passes that rewrite log.info, log.warning
\* and log.error, so it removes none of their calls.
C11_OtherLogCallsRemoved ==
    pc = "rewritten" =>
        rewritten[RemovalPass] = CallsRemoved(rewritten[RemovalPass - 1], 0)

----------------------------------------------------------------------------
(* Properties of the validator in sanitize_content *)

FileLines == SplitLines(content)

\* the file is Lua: the parser yields a tree
Parses == \A i \in 1..Len(FileLines) : FileLines[i] # BrokenLine

\* the numbers of the lines that hold a goto statement
GotoLines == IF Parses THEN {i \in 1..Len(FileLines) : FileLines[i] = GotoLine} ELSE {}

\* the numbers of the lines that hold a call or a member access rooted at os, io or lfs
UseLines == IF Parses THEN {i \in 1..Len(FileLines) : FileLines[i] \in {OsCall, IoCall}} ELSE {}

Min(S) == CHOOSE n \in S : \A o \in S : n <= o

IsNamespaceLine(line) == line \in {OsCall, IoCall, LocalOs}

\* the lines of a text that name os, io or lfs, in their order
NamespaceLines(t) == SelectSeq(SplitLines(t), IsNamespaceLine)

\* the error names the file, the line of number n and the text of that line
ErrorPointsAt(n) ==
    /\ sanitize_outcome.error.file_path = FilePath
    /\ sanitize_outcome.error.line_num = n
    /\ sanitize_outcome.error.line_text = Strip(FileLines[n])

\* C8, as claimed: a sanitizable file with a goto statement raises, with strict
\* mode on and off, an error that carries the file path, the line number of the
\* goto and the text of that line; a goto inside a comment never raises.
C8_GotoErrorNamesGoto ==
    (pc = "sanitized" /\ is_lua_module /\ Parses) =>
        /\ GotoLines # {} =>
               /\ sanitize_outcome.status = "raised"
               /\ sanitize_outcome.error.kind = "goto"
               /\ ErrorPointsAt(Min(GotoLines))
        /\ (GotoLines = {} /\ UseLines = {}) => sanitize_outcome.status = "returned"

\* C8, amended: a sanitizable file with a goto statement raises with strict mode
\* on and off, and the error carries the file path, the line number and the text
\* of the line of the first goto -- unless strict mode is on and a use of os, io
\* or lfs stands before that goto, in which case the error raised is the one of
\* that use, with its line. A goto inside a comment never raises.
C8_GotoAlwaysRaises ==
    (pc = "sanitized" /\ is_lua_module /\ Parses) =>
        /\ GotoLines # {} =>
               LET before == {n \in UseLines : n < Min(GotoLines)}
               IN /\ sanitize_outcome.status = "raised"
                  /\ IF dcs_strict_sanitize /\ before # {}
                     THEN sanitize_outcome.error.kind = "api" /\ ErrorPointsAt(Min(before))
                     ELSE sanitize_outcome.error.kind = "goto" /\ ErrorPointsAt(Min(GotoLines))
        /\ (GotoLines = {} /\ (UseLines = {} \/ ~dcs_strict_sanitize)) =>
               sanitize_outcome.status = "returned"

\* with strict mode off, a goto on line 2, under a comment that names goto, raised
C8_Witness ==
    /\ pc = "sanitized"
    /\ is_lua_module /\ ~dcs_strict_sanitize
    /\ Len(FileLines) >= 2 /\ FileLines[1] = GotoComment /\ FileLines[2] = GotoLine
    /\ sanitize_outcome.status = "raised"
    /\ sanitize_outcome.error.kind = "goto"
    /\ sanitize_outcome.error.line_num = 2
    /\ sanitize_outcome.error.line_text = <<"goto", " ", "x">>

----------------------------------------------------------------------------
(* Properties of build_project *)

\* the positions of the written output that hold a piece of one of the kinds
PiecesAt(kinds) ==
    {i \in 1..Len(output_file.data) : output_file.data[i].kind \in kinds}

\* the diagnostics of an error printed so far
ErrorsPrinted == {i \in 1..Len(log) : log[i][1] = "print_error"}

\* C4: when the core modules hold a dependency cycle, build_project ends with
\* an error that reaches its caller; it does not return as a build that
\* succeeded does.
C4_CycleIsFatal ==
    (pc = "build_done" /\ sort_outcome.status = "raised") => build_outcome.status = "raised"

\* C5: the output file exists only when the build has ended and no stage before
\* the write (path validation, existence checks, dependency extraction, sorting,
\* the fetches, the sanitization of every sanitizable file) has met an error;
\* a build in which a stage fails leaves no output file.
C5_OutputOnlyAfterCleanStages ==
    output_file.exists =>
        /\ pc = "build_done"
        /\ build_outcome.status = "returned"
        /\ ErrorsPrinted = {}

\* the pieces that carry the content of a file or stand for the build information
ContentKinds == {"header_content", "dependency_block", "generated_on", "namespace_content",
                 "core_content", "entrypoint_content", "footer_content"}

\* a content piece by its kind and, for a dependency or a core module, its name
ContentKey(piece) ==
    IF piece.kind \in {"dependency_block", "core_content"} THEN <<piece.kind, piece.of>>
    ELSE <<piece.kind, <<>>>>

\* the content pieces of the written output, in their order
ContentWritten ==
    LET IsContent(piece) == piece.kind \in ContentKinds
        pieces == SelectSeq(output_file.data, IsContent)
    IN [i \in 1..Len(pieces) |-> ContentKey(pieces[i])]

\* the order the arguments of the build call for
ContentExpected ==
    LET order == topological_sort(dependencies_graph, all_modules_to_sort,
                                  module_to_path_map).order
    IN (IF header_file_rel # NoPath THEN << <<"header_content", <<>>>> >> ELSE <<>>)
       \o [i \in 1..Len(dependencies_config) |->
              <<"dependency_block", <<dependencies_config[i].name>>>>]
       \o << <<"generated_on", <<>>>>, <<"namespace_content", <<>>>> >>
       \o [i \in 1..Len(order) |-> <<"core_content", order[i]>>]
       \o << <<"entrypoint_content", <<>>>> >>
       \o (IF footer_file_rel # NoPath THEN << <<"footer_content", <<>>>> >> ELSE <<>>)

\* the names of the core modules in the order the written output holds them
CoresWritten ==
    LET IsCore(piece) == piece.kind = "core_content"
        pieces == SelectSeq(output_file.data, IsCore)
    IN [i \in 1..Len(pieces) |-> pieces[i].of]

\* C6: the written output holds, in this order, the header (if given), the
\* dependency blocks in the order of their declaration, the build information,
\* the namespace, the core modules in the order topological_sort returns, each
\* behind its provenance comment, the entrypoint and the footer (if given); the
\* core order the build information lists is the order the modules are written in.
C6_OutputOrder ==
    output_file.exists =>
        /\ ContentWritten = ContentExpected
        /\ \A i \in PiecesAt({"core_content"}) :
              /\ i > 2
              /\ output_file.data[i - 2].kind = "core_from"
              /\ output_file.data[i - 2].of = module_to_path_map[output_file.data[i].of]
              /\ output_file.data[i - 1].kind = "core_name"
              /\ output_file.data[i - 1].of = output_file.data[i].of
        /\ \A i \in PiecesAt({"info_core_order"}) :
              output_file.data[i].text =
                  IF CoresWritten = <<>> THEN <<"N", "o", "n", "e">>
                  ELSE JoinWith(CoresWritten, <<",", " ">>)
        /\ Cardinality(PiecesAt({"info_core_order"})) = 1

\* a build with a header, a footer and two dependencies has written core
\* modules in an order that is not the alphabetical one
C6_Witness ==
    /\ output_file.exists
    /\ header_file_rel # NoPath
    /\ footer_file_rel # NoPath
    /\ Len(dependencies_config) = 2
    /\ CoresWritten = << <<"b", ".", "m">>, <<"a", ".", "z">>, <<"a", ".", "m">> >>

\* the pieces build_project puts before the scope, inside it and behind it
BeforeScopeKinds == {"header_content", "dependency_block", "generated_on", "do_not_edit",
                     "info_header_file", "info_dependencies", "info_namespace_file",
                     "info_entrypoint_file", "info_footer_file", "info_core_order",
                     "info_scope"}

InScopeKinds == {"namespace_from", "namespace_content", "core_from", "core_name",
                 "core_content", "entrypoint_from", "entrypoint_content"}

AfterScopeKinds == {"footer_from", "footer_content"}

\* C7: the written output holds the markers "do" and "end" exactly when the
\* scope is "local", and then one of each: "do" behind the header, the
\* dependency blocks and the build information and before the namespace, "end"
\* behind the entrypoint and before the footer, so that namespace, core modules
\* and entrypoint lie between the two; with the scope "global" it holds neither.
C7_ScopeMarkers ==
    output_file.exists =>
        IF scope = "local"
        THEN /\ Cardinality(PiecesAt({"do"})) = 1
             /\ Cardinality(PiecesAt({"end"})) = 1
             /\ \A d \in PiecesAt({"do"}), e \in PiecesAt({"end"}) :
                   /\ \A i \in PiecesAt(BeforeScopeKinds) : i < d
                   /\ \A i \in PiecesAt(InScopeKinds) : d < i /\ i < e
                   /\ \A i \in PiecesAt(AfterScopeKinds) : e < i
        ELSE PiecesAt({"do", "end"}) = {}

\* a build with the scope "local", a header, a footer, dependencies and core
\* modules has written its output
C7_Witness ==
    /\ output_file.exists
    /\ scope = "local"
    /\ PiecesAt({"header_content"}) # {}
    /\ PiecesAt({"dependency_block"}) # {}
    /\ PiecesAt({"core_content"}) # {}
    /\ PiecesAt({"footer_content"}) # {}

\* a call of require in a text: the name, then "(" or a string
HasRequireCall(t) ==
    \E i \in 0..(Len(t) - 1) :
        /\ At(t, i) = "require"
        /\ SkipSpace(t, i + 1) < Len(t)
        /\ At(t, SkipSpace(t, i + 1)) \in {"(", "\"", "'"}

\* C12: the text sanitize_content returns for a sanitizable file that the
\* parser and the validator accept holds no call of require: every such call
\* of the file is gone, with a ";" right behind it.
C12_NoRequireLeft ==
    (pc = "sanitized" /\ is_lua_module /\ Parses /\ sanitize_outcome.status = "returned") =>
        ~HasRequireCall(sanitize_outcome.content)

\* the lines of the file that hold no loadlib call, joined again
RECURSIVE JoinLines(_)
JoinLines(lines) ==
    IF lines = <<>> THEN <<>>
    ELSE IF Len(lines) = 1 THEN lines[1]
    ELSE lines[1] \o <<"\n">> \o JoinLines(Tail(lines))

IsLoadlibLine(line) == line \in LoadlibLines

WithoutLoadlib == JoinLines(SelectSeq(FileLines, LAMBDA line : ~IsLoadlibLine(line)))

\* what sanitize_content makes of the file without its loadlib lines
SanitizedWithoutLoadlib ==
    sanitize_content(WithoutLoadlib, FilePath, is_lua_module, dcs_strict_sanitize)

\* C13, first part: a file fails with its loadlib lines exactly when it fails
\* without them, and the text returned is the text returned without them
C13_LoadlibLinesRemoved ==
    (pc = "sanitized" /\ is_lua_module) =>
        /\ sanitize_outcome.status = SanitizedWithoutLoadlib.status
        /\ sanitize_outcome.status = "returned" =>
               Strip(sanitize_outcome.content) = Strip(SanitizedWithoutLoadlib.content)

\* C13: a loadlib call never makes sanitize_content fail, its line is removed
\* and every other line kept, and there is one warning per call, each naming
\* the text of the call removed
C13_LoadlibRemovedWithWarning ==
    (pc = "sanitized" /\ is_lua_module) =>
        /\ C13_LoadlibLinesRemoved
        /\ sanitize_outcome.status = "returned" =>
               sanitize_outcome.warnings = SelectSeq(FileLines, IsLoadlibLine)

----------------------------------------------------------------------------
(* Properties of the files emitted as they are *)

VerbatimKinds == {"header_content", "footer_content"}

\* the piece carries the text read from its file, and sanitize_content gives
\* that text back under both values of the strict flag
IsVerbatim(piece) ==
    /\ piece.text = files[piece.of]
    /\ \A strict \in BOOLEAN :
          sanitize_content(files[piece.of], piece.of, FALSE, strict) =
              [status |-> "returned", content |-> files[piece.of], warnings |-> <<>>,
               error |-> [kind |-> "none"]]

----------------------------------------------------------------------------
(* Properties of the role paths *)

RoleRels == {header_file_rel, namespace_file_rel, entrypoint_file_rel, footer_file_rel}

\* some role path leaves the source directory
RolePathOutside == \E rel \in RoleRels : rel # NoPath /\ Normalize(rel, <<>>).outside

\* C15: when a role path resolves outside the source directory, build_project
\* raises the path error, and up to then it has only made the output
\* directory and resolved paths: no is_file, no read, no walk of the source
\* directory, no output file
C15_OutsidePathFailsFirst ==
    (RolePathOutside /\ pc # "build") =>
        /\ pc = "build_done"
        /\ build_outcome.status = "raised"
        /\ build_outcome.error.kind = "path_outside"
        /\ \A k \in 1..Len(log) : log[k][1] \in {"mkdir", "resolve"}
        /\ \A p \in DOMAIN files : files[p] \in {NotChecked, Present} /\ (p \notin CorePaths => files[p] = NotChecked)
        /\ final_lua_code = <<>>
        /\ ~output_file.exists

\* the footer, resolved last, is the only path outside
C15_Witness ==
    /\ pc = "build_done"
    /\ build_outcome.status = "raised"
    /\ header_file_rel = HeaderPath
    /\ namespace_file_rel = NamespacePath
    /\ entrypoint_file_rel = EntrypointPath
    /\ Normalize(footer_file_rel, <<>>).outside
    /\ Len(log) = 5

----------------------------------------------------------------------------
(* Properties of the external dependencies *)

\* the operations that look at a file of the file system or open it
FileOps == {"exists", "read", "exists_license", "read_license"}

LicenseOps == {"fetch_license", "exists_license", "read_license"}

\* the dependency the loop of lines 493-513 is at, when it is at one
AtDependency == loop_index < Len(dependencies_config)

CurrentDependency == dependencies_config[loop_index + 1]

IsOutside(rel) == rel # NoPath /\ Normalize(rel, <<>>).outside

\* C16: no operation on a file whose path leaves the base directory; a local
\* dependency whose source leaves it is never returned, the fetch raises the
\* path error; and its license is never read when that leaves it
C16_NothingOutsideOpened ==
    /\ \A k \in 1..Len(log) : log[k][1] \in FileOps => ~IsOutside(log[k][2])
    /\ \A i \in 1..loop_index :
          dependencies_config[i].type = "local" => ~IsOutside(dependencies_config[i].source)
    /\ (pc = "build_done" /\ AtDependency /\ build_outcome.error.kind # "dependency_config"
        /\ CurrentDependency.type = "local" /\ IsOutside(CurrentDependency.source)) =>
          /\ build_outcome.status = "raised"
          /\ build_outcome.error = [kind |-> "path_outside", name |-> CurrentDependency.name]
          /\ log[Len(log)] = Event("print_error", <<"dependency", CurrentDependency.name>>)
          /\ Len(log) > 1 => log[Len(log) - 1][1] # "failed"

\* a dependency with its license outside is returned, its source read, and a
\* second dependency has its source outside and raises
C16_Witness ==
    /\ dependencies_config = <<DepLicenseOutside, DepOutside>>
    /\ loop_index = 1
    /\ pc = "build_done"
    /\ build_outcome.error.kind = "path_outside"
    /\ \E k \in 1..Len(log) : log[k] = Event("read", DepLicenseOutside.source)
    /\ \E k \in 1..Len(log) : log[k] = Event("print_warning", DepLicenseOutside.license)

\* C17: a failure while a dependency is fetched aborts the build exactly when
\* it is not the failure of a license fetch: after the failed fetch of a
\* license comes a warning and the dependency is added, after any other failed
\* fetch the error is printed and build_project raises
C17_FatalIffNotLicense ==
    \A k \in 2..Len(log) :
        log[k][1] = "failed" =>
            IF log[k - 1][1] \in LicenseOps
            THEN /\ k < Len(log)
                 /\ log[k + 1][1] = "print_warning"
                 /\ k + 1 < Len(log) => log[k + 2][1] # "print_error"
            ELSE /\ k + 1 = Len(log)
                 /\ log[k + 1][1] = "print_error"
                 /\ pc = "build_done"
                 /\ build_outcome.status = "raised"

\* the declaration is one of those that cannot be built
IsMalformed(d) ==
    \/ d.name = ""
    \/ d.type \notin {"github_release", "url", "local"}
    \/ d.source = NoPath
    \/ d.type = "github_release" /\ d.file = ""

FetchOps == FileOps \cup {"fetch", "fetch_tag", "fetch_license"}

\* C18: when a declaration of the list is malformed, the list is rejected with
\* the error of that declaration and the build is over before anything is
\* fetched, whatever stands before the malformed declaration
C18_MalformedRejectsAll ==
    ((\E i \in 1..Len(dependencies_config) : IsMalformed(dependencies_config[i]))
     /\ pc # "header_done") =>
        /\ pc = "build_done"
        /\ build_outcome.status = "raised"
        /\ build_outcome.error.kind = "dependency_config"
        /\ \A k \in 1..Len(log) : log[k][1] \notin FetchOps
        /\ loop_index = 0
        /\ final_lua_code = <<>>
        /\ ~output_file.exists

\* the malformed declaration stands behind one that is well formed
C18_Witness ==
    /\ dependencies_config = <<DepLocal, DepNoFile>>
    /\ pc = "build_done"
    /\ build_outcome.error.kind = "dependency_config"

----------------------------------------------------------------------------
(* Properties of the download cache *)

\* C19: a call made after a call for the same URL and key has returned a
\* content returns that content and asks the network for nothing
C19_CachedContentReturned ==
    \A m \in Managers :
        (calls[m].pc = "done" /\ calls[m].expected # NothingYet) =>
            /\ calls[m].status = "returned"
            /\ calls[m].result = calls[m].expected
            /\ ~calls[m].requested

\* what a reader gets of an entry written completely
CompleteEntries == {TextRead(c) : c \in Contents}

\* C20: a call that finds the cache file returns the whole content of an entry,
\* never the part of it written so far
C20_NoPartialEntryServed ==
    \A m \in Managers :
        (calls[m].pc = "done" /\ calls[m].hit) => calls[m].result \in CompleteEntries

----------------------------------------------------------------------------
(* Properties of the role files *)

\* the role files named in the call, each with its role
RoleFiles ==
    {[role |-> "Namespace", path |-> namespace_path],
     [role |-> "Entrypoint", path |-> entrypoint_path]}
    \cup (IF header_file_rel # NoPath THEN {[role |-> "Header", path |-> header_path]} ELSE {})
    \cup (IF footer_file_rel # NoPath THEN {[role |-> "Footer", path |-> footer_path]} ELSE {})

IsFileEvents == {k \in 1..Len(log) : log[k][1] = "is_file"}

\* C21: when a role file is not there, build_project raises the missing-file
\* error with the role and the resolved path of a file that is missing; up
\* to then it has made the output directory, resolved the paths and looked
\* for role files, no more; and the namespace is looked for before the
\* entrypoint, so that a missing namespace is the one reported
C21_MissingRoleFileFailsFirst ==
    (~RolePathOutside /\ \E r \in RoleFiles : files[r.path] = Missing) =>
        /\ pc = "build_done"
        /\ build_outcome.status = "raised"
        /\ build_outcome.error.kind = "missing_file"
        /\ [role |-> build_outcome.error.role, path |-> build_outcome.error.path] \in RoleFiles
        /\ files[build_outcome.error.path] = Missing
        /\ \A k \in 1..Len(log) : log[k][1] \in {"mkdir", "resolve", "is_file"}
        /\ log[Len(log)] = Event("is_file", build_outcome.error.path)
        /\ \A k \in IsFileEvents : log[k][2] = entrypoint_path =>
              \E j \in IsFileEvents : j < k /\ log[j][2] = namespace_path
        /\ final_lua_code = <<>>
        /\ all_modules_to_sort = {}
        /\ ~output_file.exists

\* the footer, looked for last, is the file missing
C21_Witness ==
    /\ pc = "build_done"
    /\ build_outcome.status = "raised"
    /\ build_outcome.error = [kind |-> "missing_file", role |-> "Footer", path |-> FooterPath]
    /\ header_file_rel # NoPath
    /\ Cardinality(IsFileEvents) = 4

----------------------------------------------------------------------------
(* The output as a function of the inputs of build_project: the arguments,  *)
(* the texts of the files read, the contents fetched, and the clock         *)

InputHeader ==
    IF header_path # NoneValue /\ files[header_path] # Missing
    THEN << Piece("header_content", header_path, files[header_path]), Newline >>
    ELSE <<>>

InputDependency(i) ==
    LET dep == dependencies_config[i]
        lua == sanitize_content(fetched_contents[i].lua_content, <<"dependency", dep.name>>,
                                TRUE, dcs_strict_sanitize).content
    IN << Piece("dependency_block", <<dep.name>>,
                format_dependency_block(dep, lua, fetched_contents[i].license_content)),
          Newline >>

InputDependencies == Concat([i \in 1..Len(fetched_contents) |-> InputDependency(i)])

\* the core modules and their order, from the files of the tree
InputCoreNames == {get_module_name_from_path(p) : p \in find_lua_files \ fixed_order_paths}

InputOrder ==
    IF InputCoreNames = {} THEN <<>>
    ELSE topological_sort([m \in InputCoreNames |->
                              parse_dependencies(files[NestedPathMap[m]]) \cap InputCoreNames],
                          InputCoreNames, NestedPathMap).order

InputSanitized(path) == sanitize_content(files[path], path, TRUE, dcs_strict_sanitize).content

InputCore(m) ==
    << Piece("core_from", NestedPathMap[m], <<>>), Piece("core_name", m, <<>>),
       Piece("core_content", m, InputSanitized(NestedPathMap[m])), Newline >>

InputFooter ==
    IF footer_path # NoneValue /\ files[footer_path] # Missing
    THEN << Piece("footer_from", footer_path, <<>>),
            Piece("footer_content", footer_path, files[footer_path]), Newline >>
    ELSE <<>>

\* the pieces before the build information, and those behind the opening of
\* the scope
OutputBefore == InputHeader \o InputDependencies

OutputAfter ==
    << Piece("namespace_from", namespace_path, <<>>),
       Piece("namespace_content", namespace_path, InputSanitized(namespace_path)), Newline >>
    \o Concat([i \in 1..Len(InputOrder) |-> InputCore(InputOrder[i])])
    \o << Piece("entrypoint_from", entrypoint_path, <<>>),
          Piece("entrypoint_content", entrypoint_path, InputSanitized(entrypoint_path)),
          Newline >>
    \o ScopeClosing(scope) \o InputFooter

\* the output for the inputs and the time `now`
BuildOutput(before, now, after) ==
    before \o BuildInformation(now) \o ScopeOpening(scope) \o after

\* the two outputs differ in the line of the generation time and nowhere else
DifferInClockLineOnly(a, b) ==
    /\ Len(a) = Len(b)
    /\ \A k \in 1..Len(a) : a[k] # b[k] => a[k].kind = "generated_on" /\ b[k].kind = "generated_on"

\* C22, as stated: the output file is the one output of the inputs, whatever
\* the run
C22_SameInputsSameOutput ==
    output_file.exists =>
        \E before \in {OutputBefore}, after \in {OutputAfter} :
            \A now \in Timestamps : output_file.data = BuildOutput(before, now, after)

\* C22, amended: the output file is the output of the inputs and of the time
\* the clock showed, and the outputs for two times differ in the line that
\* gives the generation time only
C22_SameOutputButClockLine ==
    output_file.exists =>
        \E before \in {OutputBefore}, after \in {OutputAfter} :
            /\ \E now \in Timestamps : output_file.data = BuildOutput(before, now, after)
            /\ \A n1, n2 \in Timestamps :
                  DifferInClockLineOnly(BuildOutput(before, n1, after),
                                        BuildOutput(before, n2, after))

\* an output with two dependencies fetched and all core modules, written at
\* the second time of the clock
C22_Witness ==
    /\ output_file.exists
    /\ Len(fetched_contents) = 2
    /\ Len(sorted_core_module_names) = Cardinality(BuildCoreNames)
    /\ \E k \in 1..Len(output_file.data) :
          output_file.data[k] = Piece("generated_on", <<"t2">>, <<>>)

----------------------------------------------------------------------------
(* Properties of the order of the stages *)

SanitizedKinds == {"dependency_block", "namespace_content", "core_content",
                   "entrypoint_content"}

\* the pieces appended so far that hold sanitized content
SanitizedPieces == {k \in 1..Len(final_lua_code) : final_lua_code[k].kind \in SanitizedKinds}

DependencyBlocks == {k \in 1..Len(final_lua_code) : final_lua_code[k].kind = "dependency_block"}

AllFetched == Len(fetched_contents) = Len(dependencies_config)

\* C23, as stated: the source directory is walked before a role path is
\* resolved or a role file looked for, and every external dependency is
\* fetched before any content is sanitized
C23_StagesInStatedOrder ==
    /\ \A k \in 1..Len(log) :
          log[k][1] \in {"resolve", "is_file"} => \E j \in 1..(k - 1) : log[j][1] = "walk"
    /\ SanitizedPieces # {} => AllFetched

\* C23, amended: the role paths are resolved and the role files looked for,
\* then the source directory is walked, once, then the core files are read
\* for their require calls and sorted; only then are the dependencies
\* fetched, each one sanitized and appended before the next is fetched; the
\* files of the project are sanitized after the last dependency; the output
\* is written last
C23_StagesInCodeOrder ==
    /\ \A k \in 1..Len(log) :
          /\ log[k][1] = "resolve" => \A j \in 1..(k - 1) : log[j][1] \in {"mkdir", "resolve"}
          /\ log[k][1] = "walk" =>
                /\ \A j \in 1..(k - 1) : log[j][1] \in {"mkdir", "resolve", "is_file"}
                /\ \E j \in 1..(k - 1) : log[j][1] = "is_file"
                /\ \A j \in (k + 1)..Len(log) : log[j][1] \notin {"resolve", "walk"}
          /\ log[k][1] = "read" => \E j \in 1..(k - 1) : log[j][1] = "walk"
          /\ log[k][1] \in FetchOps \ {"read"} =>
                /\ sort_outcome.status = "returned"
                /\ \E j \in 1..(k - 1) : log[j] = Event("mkdir", <<"cache">>)
          /\ log[k][1] = "write" =>
                /\ pc = "build_done"
                /\ \A j \in (k + 1)..Len(log) : log[j][1] = "print"
    /\ Cardinality(DependencyBlocks) = Len(fetched_contents)
    /\ pc = "dependencies" => loop_index = Len(fetched_contents)
    /\ SanitizedPieces \ DependencyBlocks # {} => AllFetched
    /\ output_file.exists => pc = "build_done"

\* an output written after two dependencies
C23_Witness ==
    /\ output_file.exists
    /\ Len(fetched_contents) = 2
    /\ header_file_rel # NoPath
    /\ footer_file_rel # NoPath
    /\ \E k \in 1..Len(log) : log[k][1] = "write"

----------------------------------------------------------------------------
(* Properties of the failures of sanitize_content *)

\* C24: sanitize_content returns the text of a sanitizable file only when the
\* file holds no goto statement and, in strict mode, no use of os, io or lfs,
\* and what it returns is the text after the rewriting steps; a file that
\* the parser rejects is not returned
C24_OnlyCheckedContentReturned ==
    (pc = "sanitized" /\ is_lua_module /\ sanitize_outcome.status = "returned") =>
        /\ Parses
        /\ GotoLines = {}
        /\ dcs_strict_sanitize => UseLines = {}
        /\ sanitize_outcome.content = RewriteAll(content)

----------------------------------------------------------------------------
(* find_lua_files and the maps of build_project: lines 144-151 and 423-435 *)

\* the .lua files a source directory can hold: a/b.lua, a.b.lua, a/m.lua, b.lua
\* and ns.lua
DiscoverablePaths ==
    { << <<"a">>, <<"b">> >>, << <<"a", ".", "b">> >>, << <<"a">>, <<"m">> >>,
      << <<"b">> >>, <<NamespaceName>> }

\* lines 144-151: os.walk lists the files of the source directory before those
\* of its subdirectory, and the files of one directory in the order of the
\* file system
WalkOrders(tree) ==
    {l \in [1..Cardinality(tree) -> tree] :
        /\ \A i, j \in DOMAIN l : i # j => l[i] # l[j]
        /\ \A i, j \in DOMAIN l : (Len(l[i]) = 1 /\ Len(l[j]) > 1) => i < j}

\* line 425: a dictionary comprehension keeps, for a key met twice, the last value
DictOfPaths(l) ==
    [m \in {get_module_name_from_path(l[i]) : i \in DOMAIN l} |->
        LET last == CHOOSE i \in DOMAIN l :
                        /\ get_module_name_from_path(l[i]) = m
                        /\ \A j \in DOMAIN l : get_module_name_from_path(l[j]) = m => j <= i
        IN l[last]]

\* line 426: {v: k for k, v in module_to_path.items()}
InverseOf(d) == [p \in {d[m] : m \in DOMAIN d} |-> CHOOSE m \in DOMAIN d : d[m] = p]

\* line 433
core_module_paths == {p \in Range(all_lua_file_paths) : p \notin role_paths}

\* lines 425-435
Discover ==
    /\ pc = "walked"
    /\ pc' = "discovered"
    /\ \E d \in {DictOfPaths(all_lua_file_paths)} :
          /\ module_to_path' = d
          /\ path_to_module' = InverseOf(d)
          /\ core_module_names_to_sort' =
                 {InverseOf(d)[p] : p \in core_module_paths \cap DOMAIN InverseOf(d)}
    /\ UNCHANGED <<all_lua_file_paths, role_paths, configVars, scanVars, sortVars, rewriteVars,
                   sanitizeVars, buildVars, cacheVars>>

\* the walk has returned the files of some tree; any of them can be a role file
InitDiscover ==
    /\ pc = "walked"
    /\ \E tree \in SUBSET DiscoverablePaths : all_lua_file_paths \in WalkOrders(tree)
    /\ role_paths \in SUBSET Range(all_lua_file_paths)
    /\ module_to_path = <<>>
    /\ path_to_module = <<>>
    /\ core_module_names_to_sort = {}
    /\ composerrc = <<>>
    /\ validated_config = <<>>
    /\ rc_warnings = <<>>
    /\ scan_text = <<>>
    /\ scan_start = 0
    /\ scan_end = 0
    /\ CacheIdle
    /\ SortIdle
    /\ module_to_path_map = NestedPathMap
    /\ RewriteIdle
    /\ SanitizeIdle
    /\ BuildIdle

SpecDiscover == InitDiscover /\ [][Discover]_vars

\* lines 555-557: the files the loop over the sorted names opens
EmittedPaths(m) == module_to_path[m]

\* C25: any two distinct discovered files have distinct module names, and every
\* discovered file that is not a role file has its name in the set handed to
\* the sorter and is the file opened for exactly one name of that set
C25_ModuleNamesUnique ==
    pc = "discovered" =>
        /\ \A p, q \in Range(all_lua_file_paths) :
               p # q => get_module_name_from_path(p) # get_module_name_from_path(q)
        /\ \A p \in core_module_paths :
               /\ get_module_name_from_path(p) \in core_module_names_to_sort
               /\ Cardinality({m \in core_module_names_to_sort : EmittedPaths(m) = p}) = 1

----------------------------------------------------------------------------
(* validate_config: read_composerrc.py lines 36-65 *)

\* lines 46-55
valid_keys ==
    {"source_directory", "output_file", "header_file", "namespace_file", "entrypoint_file",
     "footer_file", "dcs_strict_sanitize", "dependencies"}

\* the keys a .composerrc of the model can hold
ConfigKeys == valid_keys \cup {"scope", "invalid_key", "another_invalid"}

\* the values a key can have
ConfigValues(k) == IF k = "scope" THEN {"global", "local"} ELSE {"src", "lib"}

\* the largest number of keys of a .composerrc of the model
MaxKeys == 3

\* the dictionaries json.load can return
Configs ==
    UNION {{c \in [keys -> {"global", "local", "src", "lib"}] :
               \A k \in keys : c[k] \in ConfigValues(k)} :
           keys \in {K \in SUBSET ConfigKeys : Cardinality(K) <= MaxKeys}}

\* lines 57-65
validate_config ==
    /\ pc = "loaded"
    /\ pc' = "validated"
    /\ validated_config' = [k \in DOMAIN composerrc \cap valid_keys |-> composerrc[k]]
    /\ LET invalid_keys == DOMAIN composerrc \ valid_keys IN  \* line 63: joined as the set iterates
       IF invalid_keys # {}
       THEN \E names \in IterationOrders(invalid_keys) :
               rc_warnings' = << [kind |-> "unknown_keys", names |-> names] >>
       ELSE rc_warnings' = <<>>
    /\ UNCHANGED <<composerrc, discoverVars, scanVars, sortVars, rewriteVars, sanitizeVars,
                   buildVars, cacheVars>>

\* read_composerrc has returned a dictionary
InitConfig ==
    /\ pc = "loaded"
    /\ composerrc \in Configs
    /\ validated_config = <<>>
    /\ rc_warnings = <<>>
    /\ all_lua_file_paths = <<>>
    /\ role_paths = {}
    /\ module_to_path = <<>>
    /\ path_to_module = <<>>
    /\ core_module_names_to_sort = {}
    /\ scan_text = <<>>
    /\ scan_start = 0
    /\ scan_end = 0
    /\ CacheIdle
    /\ SortIdle
    /\ module_to_path_map = NestedPathMap
    /\ RewriteIdle
    /\ SanitizeIdle
    /\ BuildIdle

SpecConfig == InitConfig /\ [][validate_config]_vars

\* the keys the configuration file is documented to accept
RecognisedKeys == valid_keys \cup {"scope"}

\* C26: validate_config returns every recognised key, scope among them, with
\* its value, drops exactly the other keys and prints one warning that names
\* them; a configuration of recognised keys only is returned as it is
C26_RecognisedKeysKept ==
    pc = "validated" =>
        LET unknown == DOMAIN composerrc \ RecognisedKeys IN
        /\ DOMAIN validated_config = DOMAIN composerrc \cap RecognisedKeys
        /\ \A k \in DOMAIN validated_config : validated_config[k] = composerrc[k]
        /\ IF unknown = {} THEN rc_warnings = <<>>
           ELSE /\ Len(rc_warnings) = 1
                /\ Range(rc_warnings[1].names) = unknown
        /\ unknown = {} => validated_config = composerrc

----------------------------------------------------------------------------
(* _find_balanced_parentheses on texts of characters: lines 51-83 *)

\* the characters of the scanned texts: the parentheses, the two quotes, the
\* backslash and a letter
ScanChars == {"(", ")", "\"", "'", "\\", "x"}

\* the longest scanned text
MaxText == 5

ScanTexts == UNION {[1..n -> ScanChars] : n \in 0..MaxText}

\* lines 51-83
Scan ==
    /\ pc = "scan"
    /\ pc' = "scanned"
    /\ scan_end' = find_balanced_parentheses(scan_text, scan_start)
    /\ UNCHANGED <<scan_text, scan_start, configVars, discoverVars, sortVars, rewriteVars,
                   sanitizeVars, buildVars, cacheVars>>

\* a text, and a position of it or the position after its end (the callers
\* pass the result of str.find, never a negative position)
InitScan ==
    /\ pc = "scan"
    /\ scan_text \in ScanTexts
    /\ scan_start \in 0..Len(scan_text)
    /\ scan_end = 0
    /\ composerrc = <<>>
    /\ validated_config = <<>>
    /\ rc_warnings = <<>>
    /\ all_lua_file_paths = <<>>
    /\ role_paths = {}
    /\ module_to_path = <<>>
    /\ path_to_module = <<>>
    /\ core_module_names_to_sort = {}
    /\ CacheIdle
    /\ SortIdle
    /\ module_to_path_map = NestedPathMap
    /\ RewriteIdle
    /\ SanitizeIdle
    /\ BuildIdle

SpecScan == InitScan /\ [][Scan]_vars

----------------------------------------------------------------------------
(* Properties of _find_balanced_parentheses *)

\* position i follows an odd number of backslashes that follow the opening
\* parenthesis: the character at i is escaped
Escaped(t, start, i) ==
    \E k \in 1..(i - start - 1) :
        /\ k % 2 = 1
        /\ \A j \in (i - k)..(i - 1) : At(t, j) = "\\"
        /\ (i - k - 1 > start) => At(t, i - k - 1) # "\\"

\* the quote character of the string that is open when position i is read,
\* or "" outside a string
RECURSIVE OpenQuote(_, _, _)
OpenQuote(t, start, i) ==
    IF i <= start + 1 THEN ""
    ELSE LET before == OpenQuote(t, start, i - 1)
             c == At(t, i - 1)
         IN IF Escaped(t, start, i - 1) \/ c = "\\" THEN before
            ELSE IF before = "" THEN (IF c \in {"\"", "'"} THEN c ELSE "")
            ELSE IF c = before THEN ""
            ELSE before

\* the character at position i counts: it is neither escaped nor in a string
Counted(t, start, i) == ~Escaped(t, start, i) /\ OpenQuote(t, start, i) = ""

\* the parenthesis depth after position i
Depth(t, start, i) ==
    1 + Cardinality({j \in (start + 1)..i : Counted(t, start, j) /\ At(t, j) = "("})
      - Cardinality({j \in (start + 1)..i : Counted(t, start, j) /\ At(t, j) = ")"})

\* the positions of a counted ")" at which the depth is zero
ClosingPositions(t, start) ==
    {i \in (start + 1)..(Len(t) - 1) :
        Counted(t, start, i) /\ At(t, i) = ")" /\ Depth(t, start, i) = 0}

\* C27: from a position that holds "(" the function returns the first ")"
\* at which the depth is back to zero, parentheses in quoted strings and
\* escaped characters not counted, a string being closed by the quote that
\* opened it; it returns -1 when there is none or when the position is past
\* the end or holds another character; the position returned is not in a string
C27_FirstBalancedClose ==
    pc = "scanned" =>
        IF scan_start >= Len(scan_text) \/ At(scan_text, scan_start) # "("
        THEN scan_end = -1
        ELSE \E closing \in {ClosingPositions(scan_text, scan_start)} :
                IF closing = {} THEN scan_end = -1
                ELSE /\ scan_end \in closing
                     /\ \A i \in closing : scan_end <= i
                     /\ OpenQuote(scan_text, scan_start, scan_end) = ""

\* (')') scanned from its first character: the string holds a ")"
C27_Witness ==
    /\ pc = "scanned"
    /\ scan_start = 0
    /\ scan_text = <<"(", "'", ")", "'", ")">>
    /\ scan_end = 4

----------------------------------------------------------------------------
(* Properties of the sort on references that leave the core-module set *)

\* the dependency dictionary with every entry deleted whose module or required
\* name is outside the core-module set
CoreGraph == [m \in all_modules_to_sort |-> CoreDeps(m)]

\* C28: a required name outside the core-module set adds no neighbour and no
\* in-degree, raises no error on a graph whose core edges have no cycle, and
\* the outcome of the sort is the outcome on the dictionary without those entries
C28_OnlyCoreEdgesCount ==
    /\ pc \in {"loop", "done"} =>
           adj = [d \in all_modules_to_sort |-> {m \in all_modules_to_sort : d \in CoreDeps(m)}]
    /\ (pc = "loop" /\ sorted_order = <<>>) =>
           \A m \in all_modules_to_sort : in_degree[m] = Cardinality(CoreDeps(m))
    /\ pc = "done" =>
           /\ sort_outcome = topological_sort(CoreGraph, all_modules_to_sort, module_to_path_map)
           /\ Acyclic => sort_outcome.status = "returned"

\* a core module requires the namespace file, which requires it back, and
\* another core module requires the first: the sort has returned
C28_Witness ==
    /\ pc = "done"
    /\ sort_outcome.status = "returned"
    /\ \E m \in all_modules_to_sort :
           /\ NamespaceName \in dependencies_graph[m]
           /\ m \in dependencies_graph[NamespaceName]
           /\ \E o \in all_modules_to_sort \ {m} : m \in CoreDeps(o)

----------------------------------------------------------------------------
(* topological_sort with the iteration orders of its sets and dictionaries *)

\* the keys of the dictionary whose iteration does something: the modules of
\* the set that require a name
RequiringModules(graph, mods) == {m \in (DOMAIN graph) \cap mods : graph[m] # {}}

\* the ways the dependency sets of the dictionary can iterate
DependencyOrders(graph, keys) ==
    {f \in [keys -> UNION {IterationOrders(graph[k]) : k \in keys}] :
        \A k \in keys : f[k] \in IterationOrders(graph[k])}

\* lines 206-208 for one module: the module joins the list of each name of the
\* set it requires, and its in-degree counts them
RECURSIVE AppendModule(_, _, _, _)
AppendModule(built, module, deps, mods) ==
    IF deps = <<>> THEN built
    ELSE LET dep == Head(deps) IN
         AppendModule(IF dep \in mods
                      THEN [adj |-> [built.adj EXCEPT ![dep] = Append(@, module)],
                            in_degree |-> [built.in_degree EXCEPT ![module] = @ + 1]]
                      ELSE built,
                      module, Tail(deps), mods)

\* lines 203-208: the loop over the items of the dictionary
RECURSIVE BuildAdjacency(_, _, _, _)
BuildAdjacency(built, items, deps_order, mods) ==
    IF items = <<>> THEN built
    ELSE BuildAdjacency(AppendModule(built, Head(items), deps_order[Head(items)], mods),
                        Tail(items), deps_order, mods)

\* lines 211-216: the modules of in-degree zero in the order the set iterates,
\* then sorted
QueueInOrder(order, deg) ==
    LET IsReady(m) == deg[m] = 0 IN SortList(SelectSeq(order, IsReady))

\* lines 195-208
BuildGraphInOrder ==
    /\ pc = "input"
    /\ pc' = "graph"
    /\ \E items \in IterationOrders(RequiringModules(dependencies_graph, all_modules_to_sort)) :
       \E deps_order \in DependencyOrders(dependencies_graph, Range(items)) :
       \E built \in {BuildAdjacency([adj |-> [m \in all_modules_to_sort |-> <<>>],
                                     in_degree |-> [m \in all_modules_to_sort |-> 0]],
                                    items, deps_order, all_modules_to_sort)} :
          /\ adj' = built.adj
          /\ in_degree' = built.in_degree
    /\ processing_queue' = <<>>
    /\ sorted_order' = <<>>
    /\ current_directory_context' = NoneValue
    /\ UNCHANGED <<dependencies_graph, all_modules_to_sort, module_to_path_map, sort_outcome,
                   rewriteVars, sanitizeVars, buildVars, cacheVars, unitVars>>

\* lines 211-216
FillQueueInOrder ==
    /\ pc = "graph"
    /\ pc' = "loop"
    /\ \E order \in IterationOrders(all_modules_to_sort) :
          processing_queue' = QueueInOrder(order, in_degree)
    /\ UNCHANGED <<dependencies_graph, all_modules_to_sort, module_to_path_map, in_degree, adj,
                   sorted_order, current_directory_context, sort_outcome,
                   rewriteVars, sanitizeVars, buildVars, cacheVars, unitVars>>

\* lines 219-250: one iteration of the loop, the neighbours being a list
SortStepInOrder ==
    /\ pc = "loop"
    /\ processing_queue # <<>>
    /\ LET module_to_process == PickModule(processing_queue, current_directory_context,
                                           module_to_path_map)
           sorted_neighbors == SortList(adj[module_to_process])
           released == ReleaseNeighbors(sorted_neighbors, in_degree,
                                        QueueAfterPick(processing_queue,
                                                       current_directory_context,
                                                       module_to_path_map))
       IN /\ sorted_order' = Append(sorted_order, module_to_process)
          /\ current_directory_context' = Parent(module_to_path_map[module_to_process])
          /\ in_degree' = released.in_degree
          /\ processing_queue' = released.processing_queue
    /\ UNCHANGED <<pc, dependencies_graph, all_modules_to_sort, module_to_path_map, adj,
                   sort_outcome, rewriteVars, sanitizeVars, buildVars, cacheVars, unitVars>>

NextSortInOrder ==
    \/ \E m \in GraphNames, d \in GraphNames : GraphEntry(m, d)
    \/ BuildGraphInOrder
    \/ FillQueueInOrder
    \/ SortStepInOrder
    \/ SortEnd

SpecSortInOrder == InitSort /\ [][NextSortInOrder]_vars

\* C29: the outcome of topological_sort is the same for every order in which
\* the dependency dictionary, the dependency sets and the module set iterate:
\* it is the outcome computed from the set of modules, the set of entries and
\* the paths alone
C29_OrderOfIterationIrrelevant ==
    pc = "done" =>
        sort_outcome = topological_sort(dependencies_graph, all_modules_to_sort,
                                        module_to_path_map)

\* two modules requiring a third joined its list with the larger name first,
\* and the sort returned
C29_Witness ==
    /\ pc = "done"
    /\ sort_outcome.status = "returned"
    /\ \E d \in all_modules_to_sort :
           /\ Len(adj[d]) = 2
           /\ StrLess(adj[d][2], adj[d][1])

----------------------------------------------------------------------------
(* Termination of topological_sort *)

\* the loop has an iteration to run
LoopRuns == pc = "loop" /\ processing_queue # <<>>

\* the call is straight-line code and a loop: once made it keeps executing.
\* The last conjunct is the weak fairness of SortStep, with LoopRuns for the
\* condition under which SortStep can happen
SpecSortFair ==
    /\ InitSort
    /\ [][NextSort]_vars
    /\ WF_vars(SortBegin)
    /\ WF_vars(SortEnd)
    /\ ([]<>(~LoopRuns) \/ []<><<SortStep>>_vars)

NoDuplicates(l) == \A i, j \in DOMAIN l : i # j => l[i] # l[j]

\* no module is twice in the queue or in the order, none is in both, and a
\* queued module is one of the set
QueuedOnce ==
    pc \in {"loop", "done"} =>
        /\ NoDuplicates(processing_queue)
        /\ NoDuplicates(sorted_order)
        /\ Range(processing_queue) \cap Range(sorted_order) = {}
        /\ Range(processing_queue) \cup Range(sorted_order) \subseteq all_modules_to_sort

\* an iteration of the loop moves one module from the queue to the end of the
\* order, and the order never changes otherwise
IterationRemovesOne ==
    (pc = "loop" /\ sorted_order' # sorted_order) =>
        \E m \in Range(processing_queue) :
            /\ sorted_order' = Append(sorted_order, m)
            /\ m \notin Range(processing_queue')
            /\ pc' = "loop"

\* the call ends only on an empty queue, with the full order or the error
EndsReturnedOrRaised ==
    pc = "done" =>
        /\ processing_queue = <<>>
        /\ \/ /\ sort_outcome.status = "returned"
              /\ sort_outcome.order = sorted_order
              /\ Range(sorted_order) = all_modules_to_sort
           \/ /\ sort_outcome.status = "raised"
              /\ Range(sorted_order) # all_modules_to_sort

\* C30: every call of topological_sort ends, whatever the graph, a module
\* that requires itself included; no module enters the queue or the order
\* twice, each iteration takes one module off the queue, and at the empty
\* queue the call returns the full order or raises the error
C30_SortTerminates ==
    /\ []QueuedOnce
    /\ [][IterationRemovesOne]_vars
    /\ []EndsReturnedOrRaised
    /\ (pc = "loop") ~> (pc = "done")

\* the sort of a graph in which a module requires itself has raised, the
\* other modules emitted
C30_Witness ==
    /\ pc = "done"
    /\ sort_outcome.status = "raised"
    /\ \E m \in all_modules_to_sort :
           /\ m \in dependencies_graph[m]
           /\ sort_outcome.missing_from_sorted = {m}
           /\ Range(sorted_order) = all_modules_to_sort \ {m}

====
